---- MODULE Spec2Model ----
(***************************************************************************)
(* Model of the Chicago crash pipeline's concurrency-relevant core:        *)
(*   - the process-wide sync register and the manual-sync endpoints        *)
(*     (api/dependencies.py, api/routers/sync.py);                         *)
(*   - the scheduled-job tables, the job executor and the scheduler        *)
(*     (models/jobs.py, services/job_service.py, services/job_scheduler.py)*)
(* The application runs on one asyncio event loop: a handler or a          *)
(* background task runs without interruption between two awaits, so each   *)
(* action below is one such uninterrupted stretch of code.                 *)
(***************************************************************************)
EXTENDS Integers, Sequences, FiniteSets, TLC

\* ------------------------------------------------------------------ bounds
MaxTriggers == 2
MaxTests == 1
MaxNow == 2
MaxFetch == 1
MaxCoroutines == 4
rate_limit == 2

\* Python's None for the integer-valued (timestamp) fields.
None == 0 - 1

\* settings.api.endpoints, in declaration order
Endpoints == <<"crashes", "people", "vehicles", "fatalities">>

VARIABLES
    now,            \* wall clock, int(datetime.now().timestamp())
    sync_state,     \* api/dependencies.py: the process-wide register
    syncTasks,      \* background run_sync_operation tasks, in order of creation
    testsInFlight,  \* /sync/test requests suspended in client.fetch_records
    replies,        \* HTTP replies of the /sync/trigger requests handled so far
    jobs,           \* table scheduled_jobs: row i has id i (autoincrement)
    executions,     \* table job_executions: row i has id i (autoincrement)
    tasks,          \* tasks[i]: the asyncio task running _run_job_execution(i)
    scheduler,      \* the JobScheduler: its running flag and its loop task
    entity,         \* the entity kind whose table the model follows
    table,          \* that table: natural key -> stored row
    call,           \* the last call of a persistence operation and its outcome
    client          \* the SODAClient: its limiter and the coroutines using it

syncVars == <<sync_state, syncTasks, testsInFlight, replies>>
jobVars == <<jobs, executions, tasks, scheduler>>
storeVars == <<entity, table, call, client>>
vars == <<now, sync_state, syncTasks, testsInFlight, replies,
          jobs, executions, tasks, scheduler, entity, table, call, client>>

\* SODAClient.__init__: the limiter is asyncio.Semaphore(rate_limit), all of
\* its permits free; no coroutine uses the client yet.
ClientInit ==
    [permits |-> rate_limit, pc |-> [c \in 1..MaxCoroutines |-> "idle"]]

\* ------------------------------------------------------- sync register
NoOperation == [kind |-> "none", endpoint |-> "", ts |-> None]
ManualOperation(ts) == [kind |-> "Manual sync", endpoint |-> "", ts |-> ts]
SyncingOperation(ep) == [kind |-> "Syncing", endpoint |-> ep, ts |-> None]
TestOperation == [kind |-> "Test sync", endpoint |-> "", ts |-> None]

SyncStateInit ==
    [status |-> "idle",
     last_sync |-> None,
     current_operation |-> NoOperation,
     total_syncs |-> 0,
     successful_syncs |-> 0,
     failed_syncs |-> 0,
     last_error |-> "none",
     total_records_processed |-> 0]

\* endpoints_to_sync of run_sync_operation: the request's endpoint, or all
EndpointsToSync(endpoint) ==
    IF endpoint # "" THEN <<endpoint>> ELSE Endpoints

\* A test that also refuses a manual sync while a job execution is running.
SyncOrJobRunning ==
    \/ sync_state.status = "running"
    \/ \E e \in 1..Len(executions) : executions[e].status = "running"

\* The test trigger_sync makes before it accepts a request.
SyncAlreadyRunning == sync_state.status = "running"

\* POST /sync/trigger: one uninterrupted handler (no await in its body).
trigger_sync(endpoint) ==
    /\ Len(replies) < MaxTriggers
    /\ IF SyncAlreadyRunning
       THEN /\ replies' = Append(replies, [code |-> 409, status |-> "conflict", sync_id |-> None])
            /\ UNCHANGED <<sync_state, syncTasks>>
       ELSE /\ sync_state' = [sync_state EXCEPT
                                !.status = "running",
                                !.current_operation = ManualOperation(now)]
            /\ syncTasks' = Append(syncTasks,
                                [pc |-> "queued",
                                 sync_id |-> now,
                                 todo |-> EndpointsToSync(endpoint),
                                 total_records |-> 0,
                                 fetch_errors |-> 0,
                                 raised |-> FALSE])
            /\ replies' = Append(replies, [code |-> 200, status |-> "running", sync_id |-> now])
    /\ UNCHANGED <<now, testsInFlight, jobVars, storeVars>>

\* A variant of the completion that leaves successful_syncs alone.
SyncCompletedUncounted(state, ts, total) ==
    [state EXCEPT
        !.status = "idle",
        !.current_operation = NoOperation,
        !.last_sync = ts,
        !.total_records_processed = @ + total]

\* run_sync_operation marks the sync as completed.
SyncCompleted(state, ts, total) ==
    [state EXCEPT
        !.status = "idle",
        !.current_operation = NoOperation,
        !.last_sync = ts,
        !.successful_syncs = @ + 1,
        !.total_records_processed = @ + total]

\* A variant of the except branch that stamps last_sync as well.
SyncFailedStamped(state, error) ==
    [state EXCEPT
        !.status = "idle",
        !.current_operation = NoOperation,
        !.last_sync = 0,
        !.failed_syncs = @ + 1,
        !.last_error = error]

\* The except branch of run_sync_operation; error is str(e).
SyncFailed(state, error) ==
    [state EXCEPT
        !.status = "idle",
        !.current_operation = NoOperation,
        !.failed_syncs = @ + 1,
        !.last_error = error]

\* run_sync_operation from its start to its first await (fetch_all_records).
run_sync_start(i) ==
    /\ i \in 1..Len(syncTasks)
    /\ syncTasks[i].pc = "queued"
    /\ sync_state' = [sync_state EXCEPT
                        !.total_syncs = @ + 1,
                        !.current_operation = SyncingOperation(Head(syncTasks[i].todo))]
    /\ syncTasks' = [syncTasks EXCEPT ![i].pc = "fetching"]
    /\ UNCHANGED <<now, testsInFlight, replies, jobVars, storeVars>>

\* fetch_all_records returned n records for the current endpoint; they are
\* sanitized and saved, and the loop goes on to the next endpoint's fetch or,
\* after the last endpoint, marks the sync completed.
run_sync_fetched(i, n) ==
    /\ i \in 1..Len(syncTasks)
    /\ syncTasks[i].pc = "fetching"
    /\ LET t == syncTasks[i]
           rest == Tail(t.todo)
           total == t.total_records + n
       IN IF rest # <<>>
          THEN /\ sync_state' = [sync_state EXCEPT
                                   !.current_operation = SyncingOperation(Head(rest))]
               /\ syncTasks' = [syncTasks EXCEPT ![i].todo = rest,
                                                 ![i].total_records = total]
          ELSE /\ sync_state' = SyncCompleted(sync_state, now, total)
               /\ syncTasks' = [syncTasks EXCEPT ![i].pc = "done",
                                                 ![i].todo = rest,
                                                 ![i].total_records = total]
    /\ UNCHANGED <<now, testsInFlight, replies, jobVars, storeVars>>

\* The fetch or the save of the current endpoint raised: the except branch.
run_sync_failed(i) ==
    /\ i \in 1..Len(syncTasks)
    /\ syncTasks[i].pc = "fetching"
    /\ sync_state' = SyncFailed(sync_state, "sync error")
    /\ syncTasks' = [syncTasks EXCEPT ![i].pc = "done", ![i].raised = TRUE]
    /\ UNCHANGED <<now, testsInFlight, replies, jobVars, storeVars>>

\* What fetch_all_records does when the fetch of one page raises (after the
\* retries of _make_request): it stays in its loop over the pages.
FetchGoesOn(task) == [task EXCEPT !.fetch_errors = @ + 1]

\* fetch_records raised for one page of the current endpoint, inside
\* fetch_all_records: its except branch logs the error and continues with
\* the next page, so run_sync_operation is still awaiting the fetch.
run_sync_page_failed(i) ==
    /\ i \in 1..Len(syncTasks)
    /\ syncTasks[i].pc = "fetching"
    /\ syncTasks' = [syncTasks EXCEPT ![i] = FetchGoesOn(syncTasks[i])]
    /\ UNCHANGED <<now, sync_state, testsInFlight, replies, jobVars, storeVars>>

\* POST /sync/test up to its await of client.fetch_records.
test_sync_start ==
    /\ testsInFlight < MaxTests
    /\ sync_state' = [sync_state EXCEPT
                        !.status = "testing",
                        !.current_operation = TestOperation]
    /\ testsInFlight' = testsInFlight + 1
    /\ UNCHANGED <<now, syncTasks, replies, jobVars, storeVars>>

\* POST /sync/test after the fetch returned (ok) or raised (~ok).
test_sync_end(ok) ==
    /\ testsInFlight > 0
    /\ sync_state' = [sync_state EXCEPT
                        !.status = "idle",
                        !.current_operation = NoOperation,
                        !.last_error = IF ok THEN @ ELSE "test error"]
    /\ testsInFlight' = testsInFlight - 1
    /\ UNCHANGED <<now, syncTasks, replies, jobVars, storeVars>>

\* The clock advances by one second.
Tick ==
    /\ now < MaxNow
    /\ now' = now + 1
    /\ UNCHANGED <<syncVars, jobVars, storeVars>>

Init ==
    /\ now = 0
    /\ sync_state = SyncStateInit
    /\ syncTasks = <<>>
    /\ testsInFlight = 0
    /\ replies = <<>>
    /\ jobs = <<>>
    /\ executions = <<>>
    /\ tasks = <<>>
    /\ scheduler = [running |-> FALSE, pc |-> "none"]
    /\ entity = "crashes"
    /\ table = <<>>
    /\ call = [op |-> "none"]
    /\ client = ClientInit

SyncNext ==
    \/ \E ep \in {"", "crashes", "fatalities"} : trigger_sync(ep)
    \/ \E i \in 1..MaxTriggers : run_sync_start(i)
    \/ \E i \in 1..MaxTriggers, n \in 0..MaxFetch : run_sync_fetched(i, n)
    \/ \E i \in 1..MaxTriggers : run_sync_failed(i)
    \/ test_sync_start
    \/ \E ok \in BOOLEAN : test_sync_end(ok)
    \/ Tick

SpecSync == Init /\ [][SyncNext]_vars

\* Manual syncs whose page fetches may fail.
MaxPageErrors == 1

FetchNext ==
    \/ \E ep \in {"", "crashes"} : trigger_sync(ep)
    \/ \E i \in 1..MaxTriggers : run_sync_start(i)
    \/ \E i \in 1..MaxTriggers :
          /\ i \in 1..Len(syncTasks)
          /\ syncTasks[i].fetch_errors < MaxPageErrors
          /\ run_sync_page_failed(i)
    \/ \E i \in 1..MaxTriggers, n \in 0..MaxFetch : run_sync_fetched(i, n)
    \/ \E i \in 1..MaxTriggers : run_sync_failed(i)
    \/ Tick

SpecFetch == Init /\ [][FetchNext]_vars

\* ------------------------------------------------- scheduled jobs: data
MaxJobs == 1
MaxExecutions == 2
MaxRecords == 1
MaxDays == 1
MaxSeconds == 1

\* timedelta(days=1), in seconds of the clock
DaySeconds == 86400

RecurrenceTypes == {"once", "daily", "weekly", "monthly", "custom_cron"}

JobTypes ==
    {"full_refresh", "last_30_days_crashes", "last_30_days_people",
     "last_30_days_vehicles", "last_6_months_fatalities", "custom"}

NoJob ==
    [exists |-> FALSE, name |-> "", job_type |-> "", enabled |-> FALSE,
     recurrence_type |-> "once", next_run |-> None, last_run |-> None]

NoTotals == <<0, 0, 0, 0>>

NoExecution ==
    [exists |-> FALSE, job_id |-> 0, execution_id |-> <<0, 0>>,
     status |-> "deleted", started_at |-> None, completed_at |-> None,
     records |-> NoTotals, error_message |-> "none", error_details |-> "none",
     result |-> "none", logs |-> <<>>]

JobExists(j) == j \in 1..Len(jobs) /\ jobs[j].exists

ExecutionsOf(exs, j) == {e \in 1..Len(exs) : exs[e].exists /\ exs[e].job_id = j}

Terminal(status) == status \in {"completed", "failed", "cancelled"}

\* calculate_next_run returning its base time, the period not added
calculate_next_run_base(recurrence_type, last_run) ==
    IF recurrence_type = "once" THEN None
    ELSE IF last_run # None THEN last_run ELSE now

\* calculate_next_run counting from the current time whatever last_run is
calculate_next_run_from_now(recurrence_type, last_run) ==
    IF recurrence_type = "once" THEN None
    ELSE CASE recurrence_type = "daily" -> now + DaySeconds
           [] recurrence_type = "weekly" -> now + 7 * DaySeconds
           [] recurrence_type = "monthly" -> now + 30 * DaySeconds
           [] recurrence_type = "custom_cron" -> now + DaySeconds
           [] OTHER -> now + 3600

\* models/jobs.py calculate_next_run; cron_expression is never read.
calculate_next_run(recurrence_type, last_run) ==
    IF recurrence_type = "once" THEN None
    ELSE LET base_time == IF last_run # None THEN last_run ELSE now
         IN CASE recurrence_type = "daily" -> base_time + DaySeconds
              [] recurrence_type = "weekly" -> base_time + 7 * DaySeconds
              [] recurrence_type = "monthly" -> base_time + 30 * DaySeconds
              [] recurrence_type = "custom_cron" -> base_time + DaySeconds
              [] OTHER -> now + 3600

\* next_run as create_job and update_job set it
ScheduledNextRun(enabled, recurrence_type, last_run) ==
    IF enabled /\ recurrence_type # "once"
    THEN calculate_next_run(recurrence_type, last_run)
    ELSE None

\* No task is between the commit of a terminal status and the end of its
\* coroutine: that stretch has no await, so nothing else runs inside it.
LoopIdle == \A e \in 1..Len(tasks) : tasks[e].pc # "committed"

\* --------------------------------------------- scheduled jobs: job CRUD
\* The row create_job and initialize_default_jobs build for a new job
NewJob(name, job_type, enabled, recurrence_type) ==
    [exists |-> TRUE, name |-> name, job_type |-> job_type, enabled |-> enabled,
     recurrence_type |-> recurrence_type,
     next_run |-> ScheduledNextRun(enabled, recurrence_type, None),
     last_run |-> None]

\* create_job with job_data of any name and job type
create_job_as(name, job_type, enabled, recurrence_type) ==
    /\ LoopIdle
    /\ jobs' = Append(jobs, NewJob(name, job_type, enabled, recurrence_type))
    /\ UNCHANGED <<now, syncVars, executions, tasks, scheduler, storeVars>>

\* create_job of a custom job
create_job(enabled, recurrence_type) ==
    create_job_as("job", "custom", enabled, recurrence_type)

\* models/jobs.py get_default_jobs: the five built-in jobs, in list order
DefaultJobs ==
    <<[name |-> "Full Data Refresh", job_type |-> "full_refresh",
       enabled |-> FALSE, recurrence_type |-> "once"],
      [name |-> "Last 30 Days - Crash Data", job_type |-> "last_30_days_crashes",
       enabled |-> TRUE, recurrence_type |-> "daily"],
      [name |-> "Last 30 Days - People Data", job_type |-> "last_30_days_people",
       enabled |-> TRUE, recurrence_type |-> "daily"],
      [name |-> "Last 30 Days - Vehicle Data", job_type |-> "last_30_days_vehicles",
       enabled |-> TRUE, recurrence_type |-> "daily"],
      [name |-> "Last 6 Months - Vision Zero Fatalities",
       job_type |-> "last_6_months_fatalities",
       enabled |-> TRUE, recurrence_type |-> "weekly"]>>

\* A query that would look for the default job's name instead of its kind
JobOfDefaultNameExists(jbs, job_type) ==
    \E j \in 1..Len(jbs), k \in 1..Len(DefaultJobs) :
        /\ DefaultJobs[k].job_type = job_type
        /\ jbs[j].exists
        /\ jbs[j].name = DefaultJobs[k].name

\* The query of initialize_default_jobs: a job of that job_type exists
JobOfTypeExists(jbs, job_type) ==
    \E j \in 1..Len(jbs) : jbs[j].exists /\ jbs[j].job_type = job_type

\* The loop of initialize_default_jobs over default_jobs[k..]: each added row
\* is flushed, so the later queries of the same call see it
RECURSIVE AddDefaultJobs(_, _)
AddDefaultJobs(jbs, k) ==
    IF k > Len(DefaultJobs) THEN jbs
    ELSE LET d == DefaultJobs[k]
         IN AddDefaultJobs(
                IF JobOfTypeExists(jbs, d.job_type) THEN jbs
                ELSE Append(jbs, NewJob(d.name, d.job_type, d.enabled, d.recurrence_type)),
                k + 1)

\* The jobs table after initialize_default_jobs: one commit at the end, or,
\* when a write raises (~ok), the rollback of the whole call
InitializeDefaultJobs(jbs, ok) ==
    IF ok THEN AddDefaultJobs(jbs, 1) ELSE jbs

\* initialize_default_jobs, as the application's startup calls it
initialize_default_jobs(ok) ==
    /\ LoopIdle
    /\ jobs' = InitializeDefaultJobs(jobs, ok)
    /\ UNCHANGED <<now, syncVars, executions, tasks, scheduler, storeVars>>

\* update_job with updates = {"enabled": enabled}
update_job_enabled(j, enabled) ==
    /\ LoopIdle
    /\ JobExists(j)
    /\ jobs' = [jobs EXCEPT
                  ![j].enabled = enabled,
                  ![j].next_run = ScheduledNextRun(enabled, jobs[j].recurrence_type,
                                                   jobs[j].last_run)]
    /\ UNCHANGED <<now, syncVars, executions, tasks, scheduler, storeVars>>

\* update_job with updates = {"recurrence_type": recurrence_type}
update_job_recurrence(j, recurrence_type) ==
    /\ LoopIdle
    /\ JobExists(j)
    /\ jobs' = [jobs EXCEPT
                  ![j].recurrence_type = recurrence_type,
                  ![j].next_run = ScheduledNextRun(jobs[j].enabled, recurrence_type,
                                                   jobs[j].last_run)]
    /\ UNCHANGED <<now, syncVars, executions, tasks, scheduler, storeVars>>

\* delete_job: the relationship's cascade deletes the job's executions too
\* A variant of the cascade that leaves the rows of unfinished executions.
DeleteFinishedExecutions(exs, j) ==
    [e \in 1..Len(exs) |->
        IF exs[e].job_id = j /\ Terminal(exs[e].status) THEN NoExecution
        ELSE exs[e]]

\* ScheduledJob.executions, cascade="all, delete-orphan": session.delete(job)
\* deletes the job's execution rows with it.
DeleteExecutions(exs, j) ==
    [e \in 1..Len(exs) |->
        IF exs[e].job_id = j THEN NoExecution
        ELSE exs[e]]

delete_job(j) ==
    /\ LoopIdle
    /\ JobExists(j)
    /\ jobs' = [jobs EXCEPT ![j] = NoJob]
    /\ executions' = DeleteExecutions(executions, j)
    /\ UNCHANGED <<now, syncVars, tasks, scheduler, storeVars>>

\* ------------------------------------------ scheduled jobs: execute_job
RunningExecution(exs, j) ==
    \E e \in ExecutionsOf(exs, j) : exs[e].status = "running"

ExecutionIdTaken(exs, execution_id) ==
    \E e \in 1..Len(exs) : exs[e].exists /\ exs[e].execution_id = execution_id

\* execute_job without its test for a RUNNING execution
ExecuteOutcomeUnchecked(jbs, exs, j, force) ==
    IF ~(j \in 1..Len(jbs) /\ jbs[j].exists) THEN "not_found"
    ELSE IF ExecutionIdTaken(exs, <<j, now>>) THEN "integrity_error"
    ELSE "created"

\* execute_job without its lookup of the job
ExecuteOutcomeNoLookup(jbs, exs, j, force) ==
    IF RunningExecution(exs, j) /\ ~force THEN "already_running"
    ELSE IF ExecutionIdTaken(exs, <<j, now>>) THEN "integrity_error"
    ELSE "created"

\* What execute_job(j, force) does on tables jbs, exs: the error it raises,
\* or "created". The duplicate execution_id is refused by the unique index.
ExecuteOutcome(jbs, exs, j, force) ==
    IF ~(j \in 1..Len(jbs) /\ jbs[j].exists) THEN "not_found"
    ELSE IF RunningExecution(exs, j) /\ ~force THEN "already_running"
    ELSE IF ExecutionIdTaken(exs, <<j, now>>) THEN "integrity_error"
    ELSE "created"

\* The row execute_job inserts
PendingExecution(j) ==
    [exists |-> TRUE, job_id |-> j, execution_id |-> <<j, now>>,
     status |-> "pending", started_at |-> None, completed_at |-> None,
     records |-> NoTotals, error_message |-> "none", error_details |-> "none",
     result |-> "none", logs |-> <<"queued">>]

\* A task's position in _run_job_execution and its local variables:
\* sync_result, and whether it has assigned job.next_run (line 415).
NewTask == [pc |-> "created", sync_result |-> NoTotals, next_run_assigned |-> FALSE]

\* Table job_executions after execute_job(j, force)
ExecutionsAfterExecute(jbs, exs, j, force) ==
    IF ExecuteOutcome(jbs, exs, j, force) = "created"
    THEN Append(exs, PendingExecution(j))
    ELSE exs

\* The background tasks after execute_job(j, force): create_task is reached
\* only when the row was inserted
TasksAfterExecute(jbs, exs, tsks, j, force) ==
    IF ExecuteOutcome(jbs, exs, j, force) = "created"
    THEN Append(tsks, NewTask)
    ELSE tsks

\* POST /jobs/{j}/execute
execute_job(j, force) ==
    /\ LoopIdle
    /\ executions' = ExecutionsAfterExecute(jobs, executions, j, force)
    /\ tasks' = TasksAfterExecute(jobs, executions, tasks, j, force)
    /\ UNCHANGED <<now, syncVars, jobs, scheduler, storeVars>>

\* ---------------------------------------------- scheduled jobs: scheduler
\* A query that would not compare next_run with the clock
JobIsDueAnyTime(jbs, j) ==
    /\ jbs[j].exists
    /\ jbs[j].enabled
    /\ jbs[j].next_run # None

\* get_jobs_due_for_execution
JobIsDue(jbs, j) ==
    /\ jbs[j].exists
    /\ jbs[j].enabled
    /\ jbs[j].next_run # None
    /\ jbs[j].next_run <= now

JobsDue(jbs) == {j \in 1..Len(jbs) : JobIsDue(jbs, j)}

\* get_job_executions(job_id=j, limit=1): the job's most recently created row
LatestExecution(exs, j) ==
    CHOOSE e \in ExecutionsOf(exs, j) : \A o \in ExecutionsOf(exs, j) : o <= e

\* The early return of _execute_scheduled_job
SchedulerSkips(exs, j) ==
    /\ ExecutionsOf(exs, j) # {}
    /\ exs[LatestExecution(exs, j)].status = "running"

\* _execute_scheduled_job: errors of execute_job are caught and logged
ExecuteScheduledJob(jbs, exs, j) ==
    IF SchedulerSkips(exs, j) THEN exs
    ELSE ExecutionsAfterExecute(jbs, exs, j, FALSE)

\* The loop of _check_and_execute_due_jobs over due_jobs[k..]
RECURSIVE ExecuteDueJobs(_, _, _, _)
ExecuteDueJobs(jbs, exs, due_jobs, k) ==
    IF k > Len(due_jobs) THEN exs
    ELSE ExecuteDueJobs(jbs, ExecuteScheduledJob(jbs, exs, due_jobs[k]), due_jobs, k + 1)

\* The orders in which the unordered query may return the due jobs
Orderings(S) ==
    {s \in [1..Cardinality(S) -> S] : \A a, b \in 1..Cardinality(S) : a # b => s[a] # s[b]}

\* One cycle of _scheduler_loop: _check_and_execute_due_jobs. None of its
\* awaits suspends, so the cycle is one uninterrupted stretch.
DueJobsCycle ==
    /\ LoopIdle
    /\ \E due_jobs \in Orderings(JobsDue(jobs)) :
          /\ executions' = ExecuteDueJobs(jobs, executions, due_jobs, 1)
          /\ tasks' = tasks \o [k \in 1..(Len(executions') - Len(executions)) |-> NewTask]
    /\ UNCHANGED <<now, syncVars, jobs, storeVars>>

\* A call of _check_and_execute_due_jobs, whatever the loop's position
check_and_execute_due_jobs ==
    /\ DueJobsCycle
    /\ UNCHANGED scheduler

\* ------------------------------------- scheduled jobs: _run_job_execution
\* From the start of the coroutine to its await of sync_service.sync.
run_job_start(e) ==
    /\ LoopIdle
    /\ e \in 1..Len(tasks)
    /\ tasks[e].pc = "created"
    /\ IF ~executions[e].exists
       THEN /\ tasks' = [tasks EXCEPT ![e].pc = "finished"]
            /\ UNCHANGED executions
       ELSE /\ executions' = [executions EXCEPT
                                ![e].status = "running",
                                ![e].started_at = now,
                                ![e].logs = @ \o <<"started", "syncing">>]
            /\ tasks' = [tasks EXCEPT ![e].pc = "awaiting_sync"]
    /\ UNCHANGED <<now, syncVars, jobs, scheduler, storeVars>>

\* The row as the success path commits it (lines 400-410 and 419)
CompletedRow(row, totals) ==
    [row EXCEPT
        !.status = "completed",
        !.completed_at = now,
        !.records = totals,
        !.logs = @ \o <<"endpoints">>]

\* A completion that computes next_run whether the job is enabled or not
CompletedJobRearmed(job) ==
    [job EXCEPT
        !.last_run = now,
        !.next_run = IF job.recurrence_type # "once"
                     THEN calculate_next_run(job.recurrence_type, now)
                     ELSE @]

\* The parent job as the success path commits it (lines 412-417)
CompletedJob(job) ==
    [job EXCEPT
        !.last_run = now,
        !.next_run = IF job.enabled /\ job.recurrence_type # "once"
                     THEN calculate_next_run(job.recurrence_type, now)
                     ELSE @]

\* The row as the except branch commits it (lines 453-465)
FailedRow(row) ==
    [row EXCEPT
        !.status = "failed",
        !.completed_at = now,
        !.error_message = "error",
        !.error_details = "exception"]

\* sync returned: the code from the await to the commit of COMPLETED. With
\* the row deleted meanwhile the ORM raises, in the try and again in the
\* except branch, and the exception leaves the task.
run_job_sync_returned(e, totals) ==
    /\ LoopIdle
    /\ e \in 1..Len(tasks)
    /\ tasks[e].pc = "awaiting_sync"
    /\ IF ~executions[e].exists
       THEN /\ tasks' = [tasks EXCEPT ![e].pc = "escaped"]
            /\ UNCHANGED <<executions, jobs>>
       ELSE /\ executions' = [executions EXCEPT ![e] = CompletedRow(@, totals)]
            /\ jobs' = [jobs EXCEPT ![executions[e].job_id] = CompletedJob(@)]
            /\ tasks' = [tasks EXCEPT
                           ![e].pc = "committed",
                           ![e].sync_result = totals,
                           ![e].next_run_assigned =
                               LET job == jobs[executions[e].job_id]
                               IN job.enabled /\ job.recurrence_type # "once"]
    /\ UNCHANGED <<now, syncVars, scheduler, storeVars>>

\* sync raised: the except branch up to its commit of FAILED. The branch has
\* no handler of its own: if its commit raises too (handler_ok false, the
\* database still failing), the exception leaves the task.
run_job_sync_raised(e, handler_ok) ==
    /\ LoopIdle
    /\ e \in 1..Len(tasks)
    /\ tasks[e].pc = "awaiting_sync"
    /\ IF executions[e].exists /\ handler_ok
       THEN /\ executions' = [executions EXCEPT ![e] = FailedRow(@)]
            /\ tasks' = [tasks EXCEPT ![e].pc = "committed"]
       ELSE /\ tasks' = [tasks EXCEPT ![e].pc = "escaped"]
            /\ UNCHANGED executions
    /\ UNCHANGED <<now, syncVars, jobs, scheduler, storeVars>>

\* After the commit of the terminal status, to the end of the coroutine:
\* the result is merged into the context and a last log entry is appended.
run_job_finish(e) ==
    /\ e \in 1..Len(tasks)
    /\ tasks[e].pc = "committed"
    /\ executions' = [executions EXCEPT
                        ![e].result = IF @ = "none" /\ executions[e].status = "completed"
                                      THEN "totals" ELSE "error",
                        ![e].logs = @ \o <<executions[e].status>>]
    /\ tasks' = [tasks EXCEPT ![e].pc = "finished"]
    /\ UNCHANGED <<now, syncVars, jobs, scheduler, storeVars>>

\* A write of that last stretch raises (the statements are still inside the
\* try). After COMPLETED the except branch runs and commits FAILED over the
\* row, unless its own commit raises too; inside the except branch the
\* exception leaves the task.
run_job_finish_raised(e, handler_ok) ==
    /\ e \in 1..Len(tasks)
    /\ tasks[e].pc = "committed"
    /\ IF executions[e].status = "completed" /\ handler_ok
       THEN /\ executions' = [executions EXCEPT ![e] = FailedRow(@)]
            /\ UNCHANGED tasks
       ELSE /\ tasks' = [tasks EXCEPT ![e].pc = "escaped"]
            /\ UNCHANGED executions
    /\ UNCHANGED <<now, syncVars, jobs, scheduler, storeVars>>

\* Time passes until the next scheduled run of some job.
AdvanceToNextRun ==
    /\ LoopIdle
    /\ \E j \in 1..Len(jobs) :
          /\ jobs[j].exists
          /\ jobs[j].next_run > now
          /\ now' = jobs[j].next_run
    /\ UNCHANGED <<syncVars, jobVars, storeVars>>

\* The clock advances by one second.
JobTick ==
    /\ LoopIdle
    /\ now' = now + 1
    /\ UNCHANGED <<syncVars, jobVars, storeVars>>

\* SyncResult totals a run may return: <<total_records, total_inserted,
\* total_updated, total_skipped>>
Totals == {NoTotals} \cup {<<n + 5, 3, 2, n>> : n \in 1..MaxRecords}

\* The bounds of the exploration are guards of the next-state relations: the
\* tables hold at most maxJobs and maxExecutions rows (a scheduler cycle may
\* add one row per due job), and the clock starts at day zero.
JobsRoom(maxJobs) == Len(jobs) < maxJobs
ExecutionsRoom(maxExecutions, wanted) == Len(executions) + wanted <= maxExecutions

JobNext ==
    \/ JobsRoom(MaxJobs) /\ \E en \in BOOLEAN, r \in RecurrenceTypes : create_job(en, r)
    \/ \E j \in 1..MaxJobs, en \in BOOLEAN : update_job_enabled(j, en)
    \/ \E j \in 1..MaxJobs, r \in {"once", "daily"} : update_job_recurrence(j, r)
    \/ \E j \in 1..MaxJobs : delete_job(j)
    \/ ExecutionsRoom(MaxExecutions, 1)
          /\ \E j \in 1..MaxJobs, force \in BOOLEAN : execute_job(j, force)
    \/ ExecutionsRoom(MaxExecutions, Cardinality(JobsDue(jobs)))
          /\ check_and_execute_due_jobs
    \/ \E e \in 1..MaxExecutions : run_job_start(e)
    \/ \E e \in 1..MaxExecutions, totals \in Totals : run_job_sync_returned(e, totals)
    \/ \E e \in 1..MaxExecutions, ok \in BOOLEAN : run_job_sync_raised(e, ok)
    \/ \E e \in 1..MaxExecutions : run_job_finish(e)
    \/ \E e \in 1..MaxExecutions, ok \in BOOLEAN : run_job_finish_raised(e, ok)
    \/ now < MaxDays * DaySeconds /\ AdvanceToNextRun
    \/ now < MaxSeconds /\ JobTick

SpecJobs == Init /\ [][JobNext]_vars

\* The first daily default jobs, created at time zero, one day later: they are due.
DueJobsInit ==
    /\ now = DaySeconds
    /\ sync_state = SyncStateInit
    /\ syncTasks = <<>>
    /\ testsInFlight = 0
    /\ replies = <<>>
    /\ jobs = [j \in 1..(MaxJobs + 1) |->
                 [exists |-> TRUE, name |-> DefaultJobs[j + 1].name,
                  job_type |-> DefaultJobs[j + 1].job_type,
                  enabled |-> TRUE, recurrence_type |-> "daily",
                  next_run |-> DaySeconds, last_run |-> None]]
    /\ executions = <<>>
    /\ tasks = <<>>
    /\ scheduler = [running |-> FALSE, pc |-> "none"]
    /\ entity = "crashes"
    /\ table = <<>>
    /\ call = [op |-> "none"]
    /\ client = ClientInit

\* The executions of due jobs: requests, scheduler cycles and background runs,
\* with room for one more execution and one more second than under SpecJobs;
\* the syncs return empty results.
DueJobsNext ==
    \/ ExecutionsRoom(MaxExecutions + 1, 1)
          /\ \E j \in 1..(MaxJobs + 1), force \in BOOLEAN : execute_job(j, force)
    \/ ExecutionsRoom(MaxExecutions + 1, Cardinality(JobsDue(jobs)))
          /\ check_and_execute_due_jobs
    \/ \E e \in 1..(MaxExecutions + 1) : run_job_start(e)
    \/ \E e \in 1..(MaxExecutions + 1) : run_job_sync_returned(e, NoTotals)
    \/ \E e \in 1..(MaxExecutions + 1), ok \in BOOLEAN : run_job_sync_raised(e, ok)
    \/ \E e \in 1..(MaxExecutions + 1) : run_job_finish(e)
    \/ \E e \in 1..(MaxExecutions + 1), ok \in BOOLEAN : run_job_finish_raised(e, ok)
    \/ now < DaySeconds + MaxSeconds + 1 /\ JobTick

SpecDueJobs == DueJobsInit /\ [][DueJobsNext]_vars

\* The same without forced requests: every execute_job call passes force=False.
UnforcedNext ==
    \/ ExecutionsRoom(MaxExecutions + 1, 1)
          /\ \E j \in 1..(MaxJobs + 1) : execute_job(j, FALSE)
    \/ ExecutionsRoom(MaxExecutions + 1, Cardinality(JobsDue(jobs)))
          /\ check_and_execute_due_jobs
    \/ \E e \in 1..(MaxExecutions + 1) : run_job_start(e)
    \/ \E e \in 1..(MaxExecutions + 1) : run_job_sync_returned(e, NoTotals)
    \/ \E e \in 1..(MaxExecutions + 1), ok \in BOOLEAN : run_job_sync_raised(e, ok)
    \/ \E e \in 1..(MaxExecutions + 1) : run_job_finish(e)
    \/ \E e \in 1..(MaxExecutions + 1), ok \in BOOLEAN : run_job_finish_raised(e, ok)
    \/ now < DaySeconds + MaxSeconds + 1 /\ JobTick

SpecUnforced == DueJobsInit /\ [][UnforcedNext]_vars

\* ------------------------------------------------- the scheduler's loop
\* scheduler.pc is the position of the task running _scheduler_loop:
\*   "none"     no task was created yet
\*   "checking" at the head of the loop, about to call the check
\*   "sleeping" in asyncio.sleep after a check that returned
\*   "failed"   in asyncio.sleep of the except branch, after a check raised
\*   "ended"    the coroutine has returned or was cancelled
SchedulerStarted == [running |-> TRUE, pc |-> "checking"]
SchedulerStopped == [running |-> FALSE, pc |-> "ended"]

\* A loop without the except Exception branch: the exception ends the task
LoopEndsOnException(sched) == [sched EXCEPT !.pc = "ended"]

\* The loop's except Exception branch: log, then sleep the check interval
LoopAfterException(sched) == [sched EXCEPT !.pc = "failed"]

\* JobSchedulerManager.start_scheduler and JobScheduler.start: nothing when
\* a scheduler is running; else the flag is set, initialize_default_jobs is
\* called (its exception is caught and logged) and the loop task is created.
scheduler_start(ok) ==
    /\ LoopIdle
    /\ IF scheduler.running
       THEN UNCHANGED <<jobs, scheduler>>
       ELSE /\ jobs' = InitializeDefaultJobs(jobs, ok)
            /\ scheduler' = SchedulerStarted
    /\ UNCHANGED <<now, syncVars, executions, tasks, storeVars>>

\* JobScheduler.stop: the flag is cleared and the loop task cancelled; the
\* task is suspended in a sleep or has not run yet, and does nothing more.
scheduler_stop ==
    /\ LoopIdle
    /\ scheduler.running
    /\ scheduler' = SchedulerStopped
    /\ UNCHANGED <<now, syncVars, jobs, executions, tasks, storeVars>>

\* One turn of the loop in which _check_and_execute_due_jobs returns
scheduler_check ==
    /\ scheduler.running
    /\ scheduler.pc = "checking"
    /\ DueJobsCycle
    /\ scheduler' = [scheduler EXCEPT !.pc = "sleeping"]

\* One turn of the loop in which an exception leaves
\* _check_and_execute_due_jobs (raised by the logging of its own handler)
scheduler_check_raised ==
    /\ LoopIdle
    /\ scheduler.running
    /\ scheduler.pc = "checking"
    /\ scheduler' = LoopAfterException(scheduler)
    /\ UNCHANGED <<now, syncVars, jobs, executions, tasks, storeVars>>

\* asyncio.sleep(check_interval) returns, in the try or in the except branch,
\* and the loop tests self.running again
scheduler_wake ==
    /\ LoopIdle
    /\ scheduler.pc \in {"sleeping", "failed"}
    /\ scheduler' = [scheduler EXCEPT
                        !.pc = IF scheduler.running THEN "checking" ELSE "ended"]
    /\ UNCHANGED <<now, syncVars, jobs, executions, tasks, storeVars>>

\* Names and job types of the jobs users create next to the built-in ones
UserJobNames == {"job", DefaultJobs[1].name}
UserJobTypes == {"custom", DefaultJobs[2].job_type}

SchedulerNext ==
    \/ \E ok \in BOOLEAN : initialize_default_jobs(ok)
    \/ \E ok \in BOOLEAN : scheduler_start(ok)
    \/ scheduler_stop
    \/ ExecutionsRoom(MaxExecutions, Cardinality(JobsDue(jobs))) /\ scheduler_check
    \/ scheduler_check_raised
    \/ scheduler_wake
    \/ JobsRoom(MaxJobs)
          /\ \E name \in UserJobNames, job_type \in UserJobTypes :
                create_job_as(name, job_type, TRUE, "daily")
    \/ \E j \in 1..(MaxJobs + 1) : delete_job(j)
    \/ \E j \in 1..(MaxJobs + 2) : update_job_enabled(j, FALSE)
    \/ \E e \in 1..MaxExecutions : run_job_start(e)
    \/ \E e \in 1..MaxExecutions : run_job_sync_returned(e, NoTotals)
    \/ \E e \in 1..MaxExecutions : run_job_finish(e)
    \/ now < MaxDays * DaySeconds /\ AdvanceToNextRun

SpecScheduler == Init /\ [][SchedulerNext]_vars

\* The event loop resumes a task whose sleep has ended, and a coroutine that
\* is running reaches the end of its stretch without an await.
FairSpecScheduler ==
    /\ SpecScheduler
    /\ WF_vars(scheduler_wake)
    /\ WF_vars(\E e \in 1..MaxExecutions : run_job_finish(e))

\* ------------------------------------- persistence: database_service.py
\* A record is a Python dict: a function from the field names it holds to
\* values. Values are strings; "int:n" is the integer n and "str:n" the
\* string that spells it. A table is a function from the natural keys stored
\* to rows, a row a function from column names to values.
EntityKinds == {"crashes", "people", "vehicles", "fatalities"}

\* Python's None as the value of a field or a column
NoValue == "None"

\* The natural key each insert_*_records reads from a record
KeyFields(kind) ==
    CASE kind = "crashes" -> <<"crash_record_id">>
      [] kind = "people" -> <<"crash_record_id", "person_id">>
      [] kind = "vehicles" -> <<"crash_unit_id">>
      [] kind = "fatalities" -> <<"person_id">>

\* The list update_indicators of _needs_update
update_indicators ==
    {"prim_contributory_cause", "sec_contributory_cause", "most_severe_injury",
     "injuries_total", "injuries_fatal", "damage", "report_type"}

\* Columns of each entity the model follows, all set by _create_*_record
CreatedColumns(kind) ==
    CASE kind = "crashes" -> {"injuries_total", "weather_condition", "street_name"}
      [] kind = "people" -> {"hospital", "sex"}
      [] kind = "vehicles" -> {"towed_i", "make"}
      [] kind = "fatalities" -> {"crash_circumstances", "victim"}

\* Those of them _update_*_record assigns
UpdatedColumns(kind) ==
    CASE kind = "crashes" -> {"injuries_total", "weather_condition"}
      [] kind = "people" -> {"hospital"}
      [] kind = "vehicles" -> {"towed_i"}
      [] kind = "fatalities" -> {"crash_circumstances"}

\* record.get(field)
Get(record, field) ==
    IF field \in DOMAIN record THEN record[field] ELSE NoValue

\* _parse_int(value, default)
parse_int(value, default) ==
    CASE value \in {NoValue, ""} -> default
      [] value = "str:1" -> "int:1"
      [] value \in {"int:0", "int:1"} -> value
      [] OTHER -> default

\* The value _create_*_record and _update_*_record store in a column
ColumnValue(col, record) ==
    IF col = "injuries_total" THEN parse_int(Get(record, col), "int:0")
    ELSE Get(record, col)

\* Python's falsity of a key value: `not crash_id`
Falsy(value) == value \in {NoValue, ""}

KeyOf(kind, record) ==
    [i \in 1..Len(KeyFields(kind)) |-> Get(record, KeyFields(kind)[i])]

\* A test that would look at the first key component only
FirstKeyMissing(kind, record) ==
    Falsy(Get(record, KeyFields(kind)[1]))

\* The test before `skipped_count += 1; continue`
KeyMissing(kind, record) ==
    \E i \in 1..Len(KeyFields(kind)) : Falsy(Get(record, KeyFields(kind)[i]))

\* _needs_update(existing, record) as the four operations call it, without
\* last_modified_field; getattr(existing_record, field, None)
needs_update(existing, new_data) ==
    \E field \in update_indicators :
        /\ field \in DOMAIN new_data
        /\ (IF field \in DOMAIN existing THEN existing[field] ELSE NoValue)
               # new_data[field]

\* _create_*_record
CreateRecord(kind, record) ==
    [col \in CreatedColumns(kind) |-> ColumnValue(col, record)]

\* _update_*_record
UpdateRecord(kind, existing, record) ==
    [col \in DOMAIN existing |->
        IF col \in UpdatedColumns(kind) THEN ColumnValue(col, record)
        ELSE existing[col]]

\* A session (autoflush=False): the rows it has loaded, with its changes to
\* them; the objects it has added, which its queries do not see; whether two
\* added objects share a key, which the INSERTs of the commit reject.
NewSession(tbl) ==
    [rows |-> tbl, added |-> <<>>, conflict |-> FALSE,
     inserted |-> 0, updated |-> 0, skipped |-> 0]

\* The body of the loop `for record in records`
ProcessRecord(kind, s, record) ==
    IF KeyMissing(kind, record)
    THEN [s EXCEPT !.skipped = @ + 1]
    ELSE LET key == KeyOf(kind, record)
         IN IF key \in DOMAIN s.rows
            THEN IF needs_update(s.rows[key], record)
                 THEN [s EXCEPT
                          !.rows = [@ EXCEPT ![key] = UpdateRecord(kind, @, record)],
                          !.updated = @ + 1]
                 ELSE [s EXCEPT !.skipped = @ + 1]
            ELSE [s EXCEPT
                     !.added = IF key \in DOMAIN @ THEN @
                               ELSE (key :> CreateRecord(kind, record)) @@ @,
                     !.conflict = @ \/ key \in DOMAIN s.added,
                     !.inserted = @ + 1]

RECURSIVE ProcessRecords(_, _, _, _)
ProcessRecords(kind, s, records, k) ==
    IF k > Len(records) THEN s
    ELSE ProcessRecords(kind, ProcessRecord(kind, s, records[k]), records, k + 1)

\* A call that raised returns no counts.
NoResult == <<>>

\* One session over one batch: _insert_crash_batch, insert_person_records,
\* insert_vehicle_records, insert_fatality_records. The database fails at the
\* query for record fail_at (0: at none; no query is made for a record
\* without key), or at the commit when two added objects share a key; then
\* the session rolls back and the error is raised.
insert_batch(kind, tbl, records, fail_at) ==
    LET s == ProcessRecords(kind, NewSession(tbl), records, 1)
        raised == \/ fail_at \in 1..Len(records) /\ ~KeyMissing(kind, records[fail_at])
                  \/ s.conflict
    IN [table |-> IF raised THEN tbl ELSE s.added @@ s.rows,
        raised |-> raised,
        result |-> IF raised THEN NoResult
                   ELSE <<s.inserted, s.updated, s.skipped>>]

\* insert_crash_records over records[k..]: one _insert_crash_batch, with its
\* own session and commit, for each batch_size records
RECURSIVE InsertCrashBatches(_, _, _, _, _, _)
InsertCrashBatches(tbl, records, batch_size, fail_at, k, totals) ==
    IF k > Len(records)
    THEN [table |-> tbl, raised |-> FALSE, result |-> totals]
    ELSE LET last == IF k + batch_size - 1 < Len(records)
                     THEN k + batch_size - 1 ELSE Len(records)
             out == insert_batch("crashes", tbl, SubSeq(records, k, last),
                                 IF fail_at \in k..last THEN fail_at - k + 1 ELSE 0)
         IN IF out.raised
            THEN [table |-> tbl, raised |-> TRUE, result |-> NoResult]
            ELSE InsertCrashBatches(out.table, records, batch_size, fail_at, last + 1,
                                    <<totals[1] + out.result[1],
                                      totals[2] + out.result[2],
                                      totals[3] + out.result[3]>>)

insert_crash_records(tbl, records, batch_size, fail_at) ==
    InsertCrashBatches(tbl, records, batch_size, fail_at, 1, <<0, 0, 0>>)

\* The persistence operation of an entity kind
insert_records(kind, tbl, records, batch_size, fail_at) ==
    IF kind = "crashes" THEN insert_crash_records(tbl, records, batch_size, fail_at)
    ELSE insert_batch(kind, tbl, records, fail_at)

\* How many of the records have a null or missing key component
NullKeys(kind, records) ==
    Cardinality({k \in 1..Len(records) :
                    \E i \in 1..Len(KeyFields(kind)) :
                        Get(records[k], KeyFields(kind)[i]) \in {NoValue, ""}})

\* A caller passes `records` to the persistence operation of the entity; the
\* variable call keeps the size of the batch, the record of a batch of one,
\* and what the caller got back.
db_insert(records, batch_size, fail_at) ==
    LET out == insert_records(entity, table, records, batch_size, fail_at)
    IN /\ table' = out.table
       /\ call' = [op |-> "insert", records |-> Len(records),
                   record |-> IF Len(records) = 1 THEN records[1] ELSE <<>>,
                   null_keys |-> NullKeys(entity, records),
                   raised |-> out.raised, result |-> out.result]
       /\ UNCHANGED <<now, syncVars, jobVars, entity, client>>

\* Calls of the persistence operations on one table.
MaxBatch == 2

\* Marks, in the choice of an input record, a field the dict does not hold.
Absent == "absent"

\* The explored values of a key component and of a column
KeyValues == {Absent, NoValue, "k1", "k2"}
ColumnValues == {"a", "b"}

\* The explored records of each kind, field by field
Choices(kind) ==
    CASE kind = "crashes" ->
            [crash_record_id : KeyValues,
             injuries_total : {Absent, NoValue, "int:1"},
             weather_condition : ColumnValues,
             street_name : ColumnValues]
      [] kind = "people" ->
            [crash_record_id : {NoValue, "k1"},
             person_id : KeyValues,
             hospital : ColumnValues,
             sex : ColumnValues]
      [] kind = "vehicles" ->
            [crash_unit_id : KeyValues,
             towed_i : ColumnValues,
             make : ColumnValues]
      [] kind = "fatalities" ->
            [person_id : KeyValues,
             crash_circumstances : ColumnValues,
             victim : ColumnValues]

RecordFrom(choice) ==
    [field \in {x \in DOMAIN choice : choice[x] # Absent} |-> choice[field]]

Records(kind) == {RecordFrom(choice) : choice \in Choices(kind)}

\* The explored batches: any one record, or several records whose columns
\* other than the key all hold "a", or an integer
PlainRecords(kind) ==
    {r \in Records(kind) :
        \A col \in CreatedColumns(kind) : Get(r, col) \in {"a", "int:1"}}

Batches(kind) ==
    [1..1 -> Records(kind)]
        \cup UNION {[1..n -> PlainRecords(kind)] : n \in 2..MaxBatch}

StoreInit ==
    /\ now = 0
    /\ sync_state = SyncStateInit
    /\ syncTasks = <<>>
    /\ testsInFlight = 0
    /\ replies = <<>>
    /\ jobs = <<>>
    /\ executions = <<>>
    /\ tasks = <<>>
    /\ scheduler = [running |-> FALSE, pc |-> "none"]
    /\ entity \in EntityKinds
    /\ table = <<>>
    /\ call = [op |-> "none"]
    /\ client = ClientInit

\* insert_crash_records alone takes a batch_size.
StoreNext ==
    \E records \in Batches(entity), batch_size \in 1..MaxBatch, fail_at \in 0..MaxBatch :
        /\ fail_at <= Len(records)
        /\ batch_size = MaxBatch \/ (entity = "crashes" /\ batch_size < Len(records))
        /\ db_insert(records, batch_size, fail_at)

SpecStore == StoreInit /\ [][StoreNext]_vars

\* ------------------------ one endpoint of a sync run: sanitize and save
\* batch_size of insert_crash_records when the caller passes none
DefaultBatchSize == 1000

\* DataSanitizer._clean_string, on values that need no trimming
clean_string(value) ==
    IF value \in {NoValue, "", "NULL", "N/A", "UNKNOWN", "UNK"} THEN NoValue
    ELSE value

\* DataSanitizer._clean_integer
clean_integer(value) ==
    CASE value \in {NoValue, "", "NULL", "N/A"} -> NoValue
      [] value = "str:1" -> "int:1"
      [] value \in {"int:0", "int:1"} -> value
      [] OTHER -> NoValue

\* The fields sanitize_*_record writes, among those the model follows:
\* sanitize_vehicle_record writes no crash_unit_id
SanitizedFields(kind) ==
    CASE kind = "crashes" ->
            {"crash_record_id", "injuries_total", "weather_condition", "street_name"}
      [] kind = "people" -> {"crash_record_id", "person_id", "hospital", "sex"}
      [] kind = "vehicles" -> {"crash_record_id", "unit_no", "towed_i", "make"}
      [] kind = "fatalities" -> {"person_id", "crash_circumstances", "victim"}

\* sanitize_crash_record, sanitize_person_record, sanitize_vehicle_record,
\* sanitize_fatality_record
sanitize_record(kind, record) ==
    [field \in SanitizedFields(kind) |->
        IF field = "injuries_total" THEN clean_integer(Get(record, field))
        ELSE clean_string(Get(record, field))]

\* remove_duplicates over records[k..], seen_keys being the keys met so far
RECURSIVE RemoveDuplicates(_, _, _, _)
RemoveDuplicates(records, key_field, k, seen_keys) ==
    IF k > Len(records) THEN <<>>
    ELSE LET key_value == Get(records[k], key_field)
         IN IF ~Falsy(key_value) /\ key_value \notin seen_keys
            THEN <<records[k]>> \o RemoveDuplicates(records, key_field, k + 1,
                                                    seen_keys \cup {key_value})
            ELSE RemoveDuplicates(records, key_field, k + 1, seen_keys)

remove_duplicates(records, key_field) ==
    RemoveDuplicates(records, key_field, 1, {})

\* The records run_sync_operation passes to the persistence operation
ProcessedRecords(kind, records) ==
    LET sanitized == [k \in 1..Len(records) |-> sanitize_record(kind, records[k])]
    IN IF kind = "fatalities" THEN remove_duplicates(sanitized, "person_id")
       ELSE sanitized

\* How many of the records the persistence operation skips for their key
SkippedForKey(kind, processed_records) ==
    Cardinality({k \in 1..Len(processed_records) :
                    KeyMissing(kind, processed_records[k])})

\* run_sync_operation for the records fetched from the entity's endpoint:
\* they are sanitized and saved, and the counts the operation returns are the
\* endpoint's inserted, updated and skipped of the run.
sync_endpoint(records) ==
    LET processed_records == ProcessedRecords(entity, records)
        out == insert_records(entity, table, processed_records, DefaultBatchSize, 0)
    IN /\ table' = out.table
       /\ call' = [op |-> "sync", records |-> Len(records), record |-> <<>>,
                   null_keys |-> NullKeys(entity, records),
                   skipped_for_key |-> SkippedForKey(entity, processed_records),
                   raised |-> out.raised, result |-> out.result]
       /\ UNCHANGED <<now, syncVars, jobVars, entity, client>>

\* The explored records an endpoint returns: strings, as JSON gives them
FetchedChoices(kind) ==
    CASE kind = "crashes" ->
            [crash_record_id : KeyValues,
             injuries_total : {Absent, "str:1"},
             weather_condition : ColumnValues]
      [] kind = "people" ->
            [crash_record_id : {NoValue, "k1"},
             person_id : KeyValues,
             hospital : ColumnValues]
      [] kind = "vehicles" ->
            [crash_unit_id : KeyValues,
             towed_i : ColumnValues]
      [] kind = "fatalities" ->
            [person_id : KeyValues,
             crash_circumstances : ColumnValues]

FetchedBatches(kind) ==
    UNION {[1..n -> {RecordFrom(choice) : choice \in FetchedChoices(kind)}] :
              n \in 1..MaxBatch}

EndpointNext ==
    \E records \in FetchedBatches(entity) : sync_endpoint(records)

SpecEndpoint == StoreInit /\ [][EndpointNext]_vars

\* Manual syncs accepted and not yet finished.
ManualSyncsInProgress == {i \in 1..Len(syncTasks) : syncTasks[i].pc # "done"}

\* C1: at most one manual sync (run_sync_operation, queued or running) is in
\* progress in every reachable state, under every interleaving of
\* /sync/trigger, /sync/test and the background task's completion or failure.
C1_AtMostOneManualSync == Cardinality(ManualSyncsInProgress) <= 1

\* C2: a trigger request that arrives while an accepted manual sync has not
\* finished is rejected with 409 and starts no background sync.
C2_SecondTriggerRejected ==
    [][(Len(replies') = Len(replies) + 1 /\ ManualSyncsInProgress # {})
        => (replies'[Len(replies')].code = 409 /\ syncTasks' = syncTasks)]_vars

RunningExecutions(j) ==
    {e \in ExecutionsOf(executions, j) : executions[e].status = "running"}

\* C3: with no execute request ever forced (every step of SpecUnforced calls
\* execute_job with force=False), each job has at most one JobExecution row in
\* status RUNNING in every reachable state.
C3_AtMostOneRunning ==
    \A j \in 1..Len(jobs) : Cardinality(RunningExecutions(j)) <= 1

\* C4: in every reachable state, whichever order the due jobs are returned
\* in, a cycle of _check_and_execute_due_jobs run there creates no execution
\* for a job that has an execution in status RUNNING, also when that
\* execution is not the job's most recently created one.
C4_SchedulerSkipsRunningJob ==
    \A due_jobs \in Orderings(JobsDue(jobs)) :
        \A j \in 1..Len(jobs) :
            RunningExecution(executions, j)
                => ExecutionsOf(ExecuteDueJobs(jobs, executions, due_jobs, 1), j)
                       = ExecutionsOf(executions, j)

\* A due job with a RUNNING execution that is not its latest one, in a second
\* in which no execution of the job was created: the scheduler's own test
\* does not skip the job and only execute_job's test stands in the way.
C4_Witness ==
    \E j \in JobsDue(jobs) :
        /\ RunningExecution(executions, j)
        /\ ~SchedulerSkips(executions, j)
        /\ ~ExecutionIdTaken(executions, <<j, now>>)
        /\ Len(executions) = MaxExecutions + 1

StatusTransitions ==
    {<<"pending", "running">>, <<"running", "completed">>, <<"running", "failed">>,
     <<"pending", "cancelled">>, <<"running", "cancelled">>}

\* C5: the status of an execution row changes only along PENDING -> RUNNING,
\* RUNNING -> COMPLETED, RUNNING -> FAILED, or to CANCELLED from PENDING or
\* RUNNING; a terminal status never changes, RUNNING never returns to PENDING.
C5_StatusForwardOnly ==
    [][\A e \in 1..Len(executions) :
          (executions[e].exists /\ executions'[e].exists
             /\ executions'[e].status # executions[e].status)
              => <<executions[e].status, executions'[e].status>> \in StatusTransitions]_vars

\* C6: once an execution row is terminal, no step changes any of its fields
\* (status, timestamps, counters, error fields, context result and log).
C6_TerminalRowImmutable ==
    [][\A e \in 1..Len(executions) :
          (executions[e].exists /\ Terminal(executions[e].status) /\ executions'[e].exists)
              => executions'[e] = executions[e]]_vars

\* C7: the run of an execution that is FAILED has not assigned the parent
\* job's next_run: a failed run neither advances nor clears next_run.
C7_FailedRunLeavesNextRun ==
    \A e \in 1..Len(executions) :
        (executions[e].exists /\ executions[e].status = "failed")
            => ~tasks[e].next_run_assigned

\* C8: a job that was due and enabled (every job of SpecDueJobs is, from the
\* start) and all of whose executions have ended FAILED is still due.
C8_FailedJobStillDue ==
    \A j \in 1..Len(jobs) :
        (/\ ExecutionsOf(executions, j) # {}
         /\ \A e \in ExecutionsOf(executions, j) : executions[e].status = "failed")
            => JobIsDue(jobs, j)

\* C9: no exception leaves a background task, and a task that has ended
\* after an exception left its row FAILED with error_message, error_details
\* and completed_at set: no row is left RUNNING by an ended task.
C9_ExceptionsCaught ==
    \A e \in 1..Len(tasks) :
        /\ tasks[e].pc # "escaped"
        /\ (executions[e].exists /\ executions[e].status = "failed")
              => /\ executions[e].error_message # "none"
                 /\ executions[e].error_details # "none"
                 /\ executions[e].completed_at # None

\* C10: the step in which the sync of an execution returns marks the row
\* COMPLETED with its four counters equal to the SyncResult totals and
\* completed_at the completion time, sets the job's last_run to that time
\* and, for an enabled job recurring daily, weekly, monthly or by cron,
\* sets next_run later than that time, so that the job is not due.
C10_SuccessfulSync ==
    [][\A e \in 1..Len(executions) :
          (executions[e].status = "running" /\ executions'[e].status = "completed")
              => LET j == executions[e].job_id
                 IN /\ executions'[e].records = tasks'[e].sync_result
                    /\ executions'[e].completed_at = now
                    /\ jobs'[j].last_run = now
                    /\ (jobs[j].enabled
                          /\ jobs[j].recurrence_type
                                \in {"daily", "weekly", "monthly", "custom_cron"})
                         => /\ jobs'[j].next_run > now
                            /\ ~JobIsDue(jobs', j)]_vars

\* A completed execution with non-zero counters whose enabled weekly job was
\* moved one week past the completion time.
C10_Witness ==
    \E e \in 1..Len(executions) :
        /\ executions[e].exists
        /\ executions[e].status = "completed"
        /\ executions[e].records # NoTotals
        /\ tasks[e].pc = "committed"
        /\ LET job == jobs[executions[e].job_id]
           IN /\ job.enabled
              /\ job.recurrence_type = "weekly"
              /\ job.last_run = executions[e].completed_at
              /\ job.next_run = executions[e].completed_at + 7 * DaySeconds

\* C11: in every reachable state, execute_job on a job id that does not exist
\* or, unforced, on a job with a RUNNING execution, raises its ValueError
\* (job not found, already running) and changes nothing: the executions table
\* and the background tasks are as before.
C11_ExecuteJobRejects ==
    \A j \in 0..(MaxJobs + 1), force \in BOOLEAN :
        (~JobExists(j) \/ (RunningExecution(executions, j) /\ ~force))
            => /\ ExecuteOutcome(jobs, executions, j, force)
                     = (IF JobExists(j) THEN "already_running" ELSE "not_found")
               /\ ExecutionsAfterExecute(jobs, executions, j, force) = executions
               /\ TasksAfterExecute(jobs, executions, tasks, j, force) = tasks

\* A job with a RUNNING execution in a second in which none of its executions
\* was created (only the RUNNING test refuses), while the next job id does
\* not exist (only the lookup refuses).
C11_Witness ==
    /\ \E j \in 1..Len(jobs) :
          /\ jobs[j].exists
          /\ RunningExecution(executions, j)
          /\ ~ExecutionIdTaken(executions, <<j, now>>)
    /\ ~JobExists(Len(jobs) + 1)

\* C12: while the scheduler has not been stopped its loop task has not ended,
\* and a loop that sleeps, after a check that returned or after a check that
\* raised, goes on to a further check unless the scheduler is stopped.
C12_LoopSurvivesException ==
    /\ [](scheduler.running => scheduler.pc # "ended")
    /\ (scheduler.pc \in {"sleeping", "failed"})
          ~> (scheduler.pc = "checking" \/ ~scheduler.running)

\* A running scheduler whose last check raised.
C12_Witness == scheduler.running /\ scheduler.pc = "failed"

\* C13: every execution the scheduler's check cycle creates belongs to a job
\* that, at the time of the check, exists, is enabled and has a non-null
\* next_run that is not after the clock; the scheduler is the only creator of
\* executions in this specification.
C13_SchedulerStartsOnlyDueJobs ==
    [][\A e \in 1..Len(executions') :
          (e > Len(executions) /\ executions'[e].exists)
              => LET j == executions'[e].job_id
                 IN /\ j \in 1..Len(jobs)
                    /\ jobs[j].exists
                    /\ jobs[j].enabled
                    /\ jobs[j].next_run # None
                    /\ jobs[j].next_run <= now]_vars

\* The scheduler has started a job, while a job that ran and was disabled
\* since (update_job then clears its next_run) keeps no next_run, and an
\* enabled job whose next_run lies in the future has no execution.
C13_Witness ==
    /\ \E e \in 1..Len(executions) : executions[e].exists
    /\ \E j \in 1..Len(jobs) :
          /\ jobs[j].exists /\ ~jobs[j].enabled /\ jobs[j].last_run # None
          /\ jobs[j].next_run = None
    /\ \E j \in 1..Len(jobs) :
          /\ jobs[j].exists /\ jobs[j].enabled /\ jobs[j].next_run > now
          /\ ExecutionsOf(executions, j) = {}

\* Rows of the jobs table jbs whose job_type is job_type.
JobsOfType(jbs, job_type) ==
    {j \in 1..Len(jbs) : jbs[j].exists /\ jbs[j].job_type = job_type}

\* C14: whatever the jobs table holds, a call of initialize_default_jobs that
\* commits keeps every row it found, adds exactly one job of each built-in
\* kind that had no job and none of a kind that had one (whatever the names),
\* and a second call, and the one of the scheduler's start, change nothing.
C14_DefaultJobsOncePerKind ==
    LET once == InitializeDefaultJobs(jobs, TRUE)
        twice == InitializeDefaultJobs(once, TRUE)
    IN /\ SubSeq(once, 1, Len(jobs)) = jobs
       /\ \A k \in 1..Len(DefaultJobs) :
             LET kind == DefaultJobs[k].job_type
             IN Cardinality(JobsOfType(once, kind))
                    = IF JobsOfType(jobs, kind) = {} THEN 1
                      ELSE Cardinality(JobsOfType(jobs, kind))
       /\ \A j \in (Len(jobs) + 1)..Len(once) :
             \E k \in 1..Len(DefaultJobs) :
                 once[j] = NewJob(DefaultJobs[k].name, DefaultJobs[k].job_type,
                                  DefaultJobs[k].enabled, DefaultJobs[k].recurrence_type)
       /\ twice = once
       /\ InitializeDefaultJobs(jobs, FALSE) = jobs

\* initialize_default_jobs has run on a table where a user's job bore the
\* name of a built-in job without being of its kind: the built-in job of
\* that kind was added all the same, once.
C14_Witness ==
    /\ \E j \in 1..Len(jobs) :
          /\ jobs[j].exists
          /\ jobs[j].name = DefaultJobs[1].name
          /\ jobs[j].job_type # DefaultJobs[1].job_type
    /\ Cardinality(JobsOfType(jobs, DefaultJobs[1].job_type)) = 1
    /\ \E j \in 1..Len(jobs) :
          /\ jobs[j].exists
          /\ jobs[j].name = DefaultJobs[3].name
    /\ Len(jobs) > Len(DefaultJobs)

\* C15: once a page fetch of a manual sync has failed, the next thing that
\* happens to that run is its end, recorded as a failed sync: it fetches and
\* saves nothing more and is not counted as successful.
C15_FailurePropagates ==
    [][\A i \in 1..Len(syncTasks) :
          (syncTasks[i].fetch_errors > 0 /\ syncTasks'[i] # syncTasks[i])
              => /\ syncTasks'[i] = [syncTasks[i] EXCEPT !.pc = "done"]
                 /\ sync_state'.failed_syncs = sync_state.failed_syncs + 1
                 /\ sync_state'.successful_syncs = sync_state.successful_syncs]_vars

\* C16: a persistence call during which the database fails raises and
\* leaves the table as it found it: none of the rows of the batch passed to
\* it is inserted or updated.
C16_BatchAtomic ==
    [][(call'.op = "insert" /\ call'.raised) => table' = table]_vars

\* C17: after [R] has been persisted, R's key not null, persisting [R] again
\* reports inserted = 0, updated = 1, skipped = 0 and leaves the stored
\* values as the first call left them.
C17_SecondCallUpdates ==
    (/\ call.op = "insert"
     /\ call.records = 1
     /\ ~call.raised
     /\ ~KeyMissing(entity, call.record))
        => LET second == insert_records(entity, table, <<call.record>>, MaxBatch, 0)
           IN /\ ~second.raised
              /\ second.result = <<0, 1, 0>>
              /\ second.table = table

\* The non-key fields in which two records differ
FieldsChanged(kind, R1, R2) ==
    {col \in CreatedColumns(kind) : Get(R1, col) # Get(R2, col)}

\* C18: after [R] has been persisted, R's key not null, persisting [R2], R2
\* of the same key and different from R in exactly one non-key field, leaves
\* a row that holds R2's value of that field, every other column as it was.
C18_LastWriteWins ==
    (/\ call.op = "insert"
     /\ call.records = 1
     /\ ~call.raised
     /\ ~KeyMissing(entity, call.record))
        => \A R2 \in Records(entity) :
              (/\ KeyOf(entity, R2) = KeyOf(entity, call.record)
               /\ DOMAIN R2 = DOMAIN call.record
               /\ Cardinality(FieldsChanged(entity, call.record, R2)) = 1)
                  => LET key == KeyOf(entity, R2)
                         second == insert_records(entity, table, <<R2>>, MaxBatch, 0)
                     IN \A col \in CreatedColumns(entity) :
                           second.table[key][col] =
                               IF col \in FieldsChanged(entity, call.record, R2)
                               THEN ColumnValue(col, R2)
                               ELSE table[key][col]

\* Whether a component of the record's natural key is null or missing
NullKey(kind, record) == NullKeys(kind, <<record>>) = 1

\* C19: a record with a null or missing key component is never stored and
\* counts as skipped, once, and the rest of its batch is processed as if it
\* were not there: in one session the table and the inserted and updated
\* counts are those of the batch without such records, and skipped is larger
\* by their number; no stored key has a null component, and a persistence
\* call that returns has counted every record of its batch.
C19_NullKeySkipped ==
    /\ \A key \in DOMAIN table : \A i \in 1..Len(key) : key[i] \notin {NoValue, ""}
    /\ \A records \in Batches(entity) :
          LET rest == SelectSeq(records, LAMBDA r : ~NullKey(entity, r))
              out == insert_batch(entity, table, records, 0)
              ref == insert_batch(entity, table, rest, 0)
          IN /\ out.raised = ref.raised
             /\ out.table = ref.table
             /\ ~out.raised =>
                   out.result = <<ref.result[1], ref.result[2],
                                  ref.result[3] + NullKeys(entity, records)>>
    /\ \A records \in Batches(entity), batch_size \in 1..MaxBatch :
          LET out == insert_records(entity, table, records, batch_size, 0)
          IN ~out.raised =>
                /\ out.result[1] + out.result[2] + out.result[3] = Len(records)
                /\ out.result[3] >= NullKeys(entity, records)
                /\ \A key \in DOMAIN out.table :
                      \A i \in 1..Len(key) : key[i] \notin {NoValue, ""}

\* A call for two people records, one without person_id, has returned: one
\* row inserted, one record skipped.
C19_Witness ==
    /\ entity = "people"
    /\ call.op = "insert"
    /\ ~call.raised
    /\ call.records = 2
    /\ call.null_keys = 1
    /\ call.result = <<1, 0, 1>>
    /\ Cardinality(DOMAIN table) = 1

\* C20: when the records fetched from an endpoint have been sanitized and
\* saved, the endpoint's skipped count is at least the number of fetched
\* records whose natural key is null or missing.
C20_NullKeysCounted ==
    (call.op = "sync" /\ ~call.raised) => call.result[3] >= call.null_keys

\* ------------------------------------------------------------ SODA client
\* etl/soda_client.py: the paginated fetch, the retrying request and the
\* limiter.
MaxRows == 6
MaxPages == 4
FallbackLimit == 1000
FallbackFactor == 10
batch_size_default == 50000

Min(a, b) == IF a <= b THEN a ELSE b

\* The rows the API returns to a request with $limit and $offset over a
\* dataset of total rows.
PageRows(total, limit, offset) ==
    IF offset >= total THEN 0 ELSE Min(limit, total - offset)

\* How the count query of a paginated fetch can end: answered, failed with
\* the fallback page fetched, failed with the fallback page failing too.
CountOutcomes == {"counted", "estimated", "failed"}

\* _get_record_count over a dataset of total rows.
get_record_count(total, count) ==
    CASE count = "counted" -> total
      [] count = "estimated" ->
            LET first_batch == PageRows(total, FallbackLimit, 0)
            IN IF first_batch = FallbackLimit
                  THEN first_batch * FallbackFactor
                  ELSE first_batch
      [] OTHER -> 0

num_batches(total_count, batch_size) ==
    (total_count + batch_size - 1) \div batch_size

\* The offsets of the page requests of the loop, in order.
Offsets(total_count, batch_size) ==
    IF total_count = 0
       THEN <<>>
       ELSE [batch_num \in 1..num_batches(total_count, batch_size) |->
                (batch_num - 1) * batch_size]

\* len(all_records) after the loop: the pages whose request raised are
\* logged and left out.
RECURSIVE AllRecords(_, _, _, _)
AllRecords(total, batch_size, offsets, failed) ==
    IF offsets = <<>>
       THEN 0
       ELSE LET n == Len(offsets)
                before == AllRecords(total, batch_size, SubSeq(offsets, 1, n - 1), failed)
            IN IF n \in failed
                  THEN before
                  ELSE before + PageRows(total, batch_size, offsets[n])

\* fetch_all_records over a dataset of total rows; failed holds the batch
\* numbers whose fetch_records raises.
fetch_all_records(total, batch_size, count, failed) ==
    LET total_count == get_record_count(total, count)
        offsets == Offsets(total_count, batch_size)
    IN /\ failed \subseteq 1..Len(offsets)
       /\ call' = [op |-> "fetch_all", total |-> total, batch_size |-> batch_size,
                   count |-> count,
                   probes |-> IF count = "counted" THEN 0 ELSE 1,
                   offsets |-> offsets,
                   failed |-> Cardinality(failed),
                   records |-> AllRecords(total, batch_size, offsets, failed)]
       /\ UNCHANGED <<now, syncVars, jobVars, entity, table, client>>

Datasets == (0..MaxRows) \cup {FallbackLimit - 1, FallbackLimit, FallbackLimit + 1,
                               batch_size_default + FallbackLimit}
BatchSizes == (1..3) \cup {FallbackLimit, batch_size_default}

PagingNext ==
    \E total \in Datasets, batch_size \in BatchSizes, count \in CountOutcomes,
       failed \in SUBSET (1..MaxPages) :
        /\ num_batches(get_record_count(total, count), batch_size) <= MaxPages
        /\ fetch_all_records(total, batch_size, count, failed)

SpecPaging == Init /\ [][PagingNext]_vars

\* C21: a paginated fetch over N rows with batch size B in which every page
\* request succeeds issues exactly ceil(N/B) page requests, at offsets
\* 0, B, 2B, ..., delivers N records, and issues no page request when N = 0.
C21_BatchCountConservation ==
    (call.op = "fetch_all" /\ call.failed = 0 /\ call.count # "failed")
        => LET requests == call.probes + Len(call.offsets)
           IN /\ requests * call.batch_size >= call.total
              /\ requests > 0 => (requests - 1) * call.batch_size < call.total
              /\ \A k \in 1..Len(call.offsets) :
                    call.offsets[k] = (k - 1) * call.batch_size
              /\ call.records = call.total
              /\ call.total = 0 => requests = 0

\* settings.api.max_retries
max_retries == 3

\* How one client.get of _make_request can end: a response with a good
\* status, HTTP 429, another error status, a timeout, a failed connection.
AttemptOutcomes == {"ok", "429", "status", "timeout", "connect"}

\* The exception an attempt's ending is raised as.
ErrorOf(outcome) ==
    CASE outcome \in {"429", "status"} -> "HTTPStatusError"
      [] outcome = "timeout" -> "TimeoutException"
      [] outcome = "connect" -> "ConnectError"
      [] OTHER -> "none"

\* A variant that sleeps and goes on after every error status.
RetriedAnyStatus(outcome, attempt) ==
    \/ outcome \in {"429", "status"}
    \/ outcome \in {"timeout", "connect"} /\ attempt < max_retries

\* The except branches of _make_request that sleep and `continue`.
Retried(outcome, attempt) ==
    \/ outcome = "429"
    \/ outcome \in {"timeout", "connect"} /\ attempt < max_retries

\* settings.api.backoff_factor
backoff_factor == 2

\* A loop that allows one attempt more than the budget.
AttemptAllowedOnceMore(attempt) == attempt <= max_retries + 1

\* for attempt in range(settings.api.max_retries + 1)
AttemptAllowed(attempt) == attempt <= max_retries

\* wait_time = settings.api.backoff_factor ** attempt
wait_time(attempt) == backoff_factor ^ attempt

\* _make_request from attempt on (attempt counts from 0 as in the source),
\* sleeps being the backoff sleeps so far, each with the number of attempts
\* made before it; outcomes[attempt + 1] is how the attempt ends.
RECURSIVE make_request(_, _, _)
make_request(outcomes, attempt, sleeps) ==
    IF ~AttemptAllowed(attempt)
       THEN [raised |-> "Exception", attempts |-> attempt, sleeps |-> sleeps]
       ELSE LET outcome == outcomes[attempt + 1]
            IN IF outcome = "ok"
                  THEN [raised |-> "none", attempts |-> attempt + 1, sleeps |-> sleeps]
                  ELSE IF Retried(outcome, attempt)
                          THEN make_request(outcomes, attempt + 1,
                                            Append(sleeps, wait_time(attempt)))
                          ELSE [raised |-> ErrorOf(outcome),
                                attempts |-> attempt + 1, sleeps |-> sleeps]

\* fetch_records: one _make_request under the limiter, then response.json();
\* the except clauses log and re-raise, the limiter's permit is given back on
\* every way out.
fetch_records(outcomes, json) ==
    LET response == make_request(outcomes, 0, <<>>)
    IN /\ call' = [op |-> "fetch_records", outcomes |-> outcomes, json |-> json,
                   attempts |-> response.attempts,
                   sleeps |-> Len(response.sleeps),
                   wait_times |-> response.sleeps,
                   raised |-> IF response.raised = "none" /\ json = "malformed"
                                 THEN "ValueError"
                                 ELSE response.raised]
       /\ UNCHANGED <<now, syncVars, jobVars, entity, table, client>>

\* The server has an answer for one request more than the budget allows: it
\* would serve that request or throttle it.
RequestNext ==
    \E outcomes \in [1..(max_retries + 1) -> AttemptOutcomes],
       spare \in {"ok", "429"}, json \in {"valid", "malformed"} :
        fetch_records(Append(outcomes, spare), json)

SpecRequest == Init /\ [][RequestNext]_vars

\* C22: once every attempt of the retry budget has failed, the request raises
\* the error of the failing attempts: the timeout or connection error when
\* they timed out or could not connect, the HTTP status error when they
\* received HTTP 429.
C22_ExhaustedSurfacesError ==
    (call.op = "fetch_records" /\ call.attempts = max_retries + 1)
        => /\ (\A k \in 1..(max_retries + 1) : call.outcomes[k] \in {"timeout", "connect"})
                => call.raised = (IF call.outcomes[max_retries + 1] = "timeout"
                                     THEN "TimeoutException" ELSE "ConnectError")
           /\ (\A k \in 1..(max_retries + 1) : call.outcomes[k] = "429")
                => call.raised = "HTTPStatusError"

\* C23: an error status other than 429 is raised by the attempt that received
\* it, without a backoff sleep for it and without a further attempt; a
\* malformed JSON body is raised by fetch_records without a further attempt.
C23_NoRetryOfFatalErrors ==
    call.op = "fetch_records"
        => /\ call.outcomes[1] = "status"
                => (call.raised = "HTTPStatusError" /\ call.attempts = 1 /\ call.sleeps = 0)
           /\ \A k \in 1..call.attempts :
                 call.outcomes[k] = "status"
                    => (call.raised = "HTTPStatusError" /\ call.attempts = k
                            /\ call.sleeps = k - 1)
           /\ \A k \in 1..call.attempts :
                 (call.outcomes[k] = "ok" /\ call.json = "malformed")
                    => (call.raised = "ValueError" /\ call.attempts = k
                            /\ call.sleeps = k - 1)

C23_Witness ==
    /\ call.op = "fetch_records"
    /\ call.outcomes[1] = "status"
    /\ call.raised = "HTTPStatusError"
    /\ call.attempts = 1

\* The coroutines that share one SODAClient.  pc of a coroutine: "idle",
\* "count" (the count query of _get_record_count is at client.get), "acquire"
\* (at `async with self.rate_limiter` of fetch_records), "page" (inside it,
\* the page request is at client.get).
ClientUnchanged == UNCHANGED <<now, syncVars, jobVars, entity, table, call>>

\* fetch_all_records calls _get_record_count, which hands its URL to
\* _make_request.
get_record_count_request(c) ==
    /\ client.pc[c] = "idle"
    /\ client' = [client EXCEPT !.pc[c] = "count"]
    /\ ClientUnchanged

\* The count query ends: with a count of 0 the fetch returns, otherwise (and
\* when the query failed) fetch_records is called for the first or the
\* fallback page.
get_record_count_returned(c, pages) ==
    /\ client.pc[c] = "count"
    /\ client' = [client EXCEPT !.pc[c] = IF pages THEN "acquire" ELSE "idle"]
    /\ ClientUnchanged

\* A direct call of fetch_records.
fetch_records_called(c) ==
    /\ client.pc[c] = "idle"
    /\ client' = [client EXCEPT !.pc[c] = "acquire"]
    /\ ClientUnchanged

\* Semaphore.__aenter__: waits while no permit is free.
rate_limiter_acquire(c) ==
    /\ client.pc[c] = "acquire"
    /\ client.permits > 0
    /\ client' = [client EXCEPT !.permits = @ - 1, !.pc[c] = "page"]
    /\ ClientUnchanged

\* The page request returned or raised: Semaphore.__aexit__ gives the permit
\* back, and the caller fetches another page or is done.
rate_limiter_release(c, more) ==
    /\ client.pc[c] = "page"
    /\ client' = [client EXCEPT !.permits = @ + 1,
                                !.pc[c] = IF more THEN "acquire" ELSE "idle"]
    /\ ClientUnchanged

ClientNext ==
    \E c \in 1..MaxCoroutines :
        \/ get_record_count_request(c)
        \/ \E pages \in BOOLEAN : get_record_count_returned(c, pages)
        \/ fetch_records_called(c)
        \/ rate_limiter_acquire(c)
        \/ \E more \in BOOLEAN : rate_limiter_release(c, more)

SpecClient == Init /\ [][ClientNext]_vars

\* The coroutines whose request is at client.get, and those inside the
\* limiter.
InFlight == {c \in 1..MaxCoroutines : client.pc[c] \in {"count", "page"}}
PermitHolders == {c \in 1..MaxCoroutines : client.pc[c] = "page"}

\* C24: every request in flight, page fetch or count query, is made by a
\* coroutine that holds a permit of the limiter, so at most rate_limit
\* requests are in flight.
C24_RequestsHoldPermit ==
    /\ InFlight \subseteq PermitHolders
    /\ Cardinality(InFlight) <= rate_limit

\* What one step does to the counters of the register when task i of the
\* manual syncs starts or ends in it.
CountsOnce(i) ==
    /\ (syncTasks[i].pc = "queued" /\ syncTasks'[i].pc # "queued")
          => /\ sync_state'.total_syncs = sync_state.total_syncs + 1
             /\ sync_state'.successful_syncs = sync_state.successful_syncs
             /\ sync_state'.failed_syncs = sync_state.failed_syncs
    /\ (syncTasks[i].pc # "done" /\ syncTasks'[i].pc = "done")
          => /\ sync_state'.status = "idle"
             /\ sync_state'.total_syncs = sync_state.total_syncs
             /\ \/ /\ sync_state'.successful_syncs = sync_state.successful_syncs + 1
                   /\ sync_state'.failed_syncs = sync_state.failed_syncs
                \/ /\ sync_state'.successful_syncs = sync_state.successful_syncs
                   /\ sync_state'.failed_syncs = sync_state.failed_syncs + 1
    /\ syncTasks'[i].pc = syncTasks[i].pc
          => \/ \E j \in 1..Len(syncTasks) : syncTasks'[j].pc # syncTasks[j].pc
             \/ /\ sync_state'.total_syncs = sync_state.total_syncs
                /\ sync_state'.successful_syncs = sync_state.successful_syncs
                /\ sync_state'.failed_syncs = sync_state.failed_syncs

\* C25: a manual sync increments total_syncs once when it starts and exactly
\* one of successful_syncs and failed_syncs once when it ends, setting the
\* status to idle; whenever no manual sync is in progress the status is not
\* "running" and total_syncs = successful_syncs + failed_syncs.
C25_CountersBalance ==
    /\ [][\A i \in 1..Len(syncTasks) : CountsOnce(i)]_vars
    /\ [](ManualSyncsInProgress = {}
            => /\ sync_state.status # "running"
               /\ sync_state.total_syncs
                     = sync_state.successful_syncs + sync_state.failed_syncs)

C25_Witness ==
    /\ ManualSyncsInProgress = {}
    /\ sync_state.successful_syncs = 1
    /\ sync_state.failed_syncs = 1
    /\ sync_state.total_syncs = 2

\* C26: when a manual sync fails, the register ends with status idle, no
\* current operation, last_error the error's text and failed_syncs one
\* larger, and last_sync, successful_syncs and total_records_processed are
\* what they were.
C26_FailureLeavesSuccessFields ==
    [][\A i \in 1..Len(syncTasks) :
          (~syncTasks[i].raised /\ syncTasks'[i].raised)
             => /\ sync_state'.status = "idle"
                /\ sync_state'.current_operation = NoOperation
                /\ sync_state'.last_error = "sync error"
                /\ sync_state'.failed_syncs = sync_state.failed_syncs + 1
                /\ sync_state'.last_sync = sync_state.last_sync
                /\ sync_state'.successful_syncs = sync_state.successful_syncs
                /\ sync_state'.total_records_processed
                      = sync_state.total_records_processed]_vars

C26_Witness ==
    \E i \in 1..Len(syncTasks) :
        /\ syncTasks[i].raised
        /\ sync_state.failed_syncs = 1
        /\ sync_state.last_error = "sync error"
        /\ sync_state.last_sync # None

\* ---------------------------------------------------------- deduplication
\* DataSanitizer.remove_duplicates applied to lists of records that differ in
\* their key and in one other field.
MaxList == 3

DedupeRecords == [person_id : {NoValue, "", "k1", "k2"}, data : {"a", "b"}]

dedupe(records) ==
    /\ call' = [op |-> "dedupe", records |-> records,
                result |-> remove_duplicates(records, "person_id")]
    /\ UNCHANGED <<now, syncVars, jobVars, entity, table, client>>

DedupeNext ==
    \E n \in 0..MaxList : \E records \in [1..n -> DedupeRecords] : dedupe(records)

SpecDedupe == Init /\ [][DedupeNext]_vars

\* The positions of records that hold the first record of their key value.
FirstSeen(records) ==
    {i \in 1..Len(records) :
        \A j \in 1..(i - 1) : records[j].person_id # records[i].person_id}

\* The records at the positions of a set, in the order of the list.
Kept(records, positions) ==
    [k \in 1..Cardinality(positions) |->
        records[CHOOSE i \in positions :
                    Cardinality({j \in positions : j <= i}) = k]]

\* C28: remove_duplicates(records, key) returns its own output unchanged when
\* applied to it, and its output is the first-seen record of each key value,
\* in the order of the input.
C28_DeduplicationLaw ==
    call.op = "dedupe"
        => /\ remove_duplicates(call.result, "person_id") = call.result
           /\ call.result = Kept(call.records, FirstSeen(call.records))

\* ------------------------------------------------------------ coordinates
\* validation_settings, in hundredths of a degree
min_latitude == 4160
max_latitude == 4210
min_longitude == 0 - 8795
max_longitude == 0 - 8750

\* float(value) of the numeric texts the model follows, in hundredths of a
\* degree; float raises ValueError for every other text.
Degrees ==
    ("41.59" :> 4159) @@ ("41.60" :> 4160) @@ ("41.88" :> 4188)
        @@ ("42.10" :> 4210) @@ ("42.11" :> 4211)
        @@ ("-87.96" :> 0 - 8796) @@ ("-87.95" :> 0 - 8795) @@ ("-87.63" :> 0 - 8763)
        @@ ("-87.50" :> 0 - 8750) @@ ("-87.49" :> 0 - 8749)

\* str.strip
strip(value) ==
    CASE value = " 41.60 " -> "41.60"
      [] value = " " -> ""
      [] OTHER -> value

\* DataSanitizer._clean_float: the float is written as its canonical text.
clean_float(value) ==
    IF value \in {NoValue, ""}
       THEN NoValue
       ELSE LET stripped == strip(value)
            IN IF stripped \in {"", "NULL", "N/A"}
                  THEN NoValue
                  ELSE IF stripped \in DOMAIN Degrees THEN stripped ELSE NoValue

\* A variant without the bounds of the Chicago area.
clean_coordinate_unbounded(value, coord_type) == clean_float(value)

\* DataSanitizer._clean_coordinate
clean_coordinate(value, coord_type) ==
    LET coord == clean_float(value)
    IN IF coord = NoValue
          THEN NoValue
          ELSE IF coord_type = "latitude"
                  THEN IF ~(min_latitude <= Degrees[coord] /\ Degrees[coord] <= max_latitude)
                          THEN NoValue
                          ELSE coord
                  ELSE IF coord_type = "longitude"
                          THEN IF ~(min_longitude <= Degrees[coord]
                                      /\ Degrees[coord] <= max_longitude)
                                  THEN NoValue
                                  ELSE coord
                          ELSE coord

\* sanitize_crash_record and sanitize_fatality_record with their coordinates
sanitize_located_record(kind, record) ==
    LET sanitized == sanitize_record(kind, record)
    IN [field \in DOMAIN sanitized \cup {"latitude", "longitude"} |->
           IF field \in {"latitude", "longitude"}
              THEN clean_coordinate(Get(record, field), field)
              ELSE sanitized[field]]

RawLatitudes ==
    {NoValue, "", " ", "N/A", "north", "41.59", "41.60", " 41.60 ", "41.88",
     "42.10", "42.11", "-87.63"}
RawLongitudes ==
    {NoValue, "NULL", "west", "-87.96", "-87.95", "-87.63", "-87.50", "-87.49", "41.88"}

\* The sanitizer applied to one fetched record of a kind that has coordinates.
sanitize(kind, record) ==
    /\ call' = [op |-> "sanitize", kind |-> kind, raw |-> record,
                record |-> sanitize_located_record(kind, record)]
    /\ UNCHANGED <<now, syncVars, jobVars, entity, table, client>>

CoordinatesNext ==
    \E kind \in {"crashes", "fatalities"}, key \in {NoValue, "k1"},
       lat \in RawLatitudes, lon \in RawLongitudes :
        sanitize(kind, [field \in {"latitude", "longitude", KeyFields(kind)[1]} |->
                           CASE field = "latitude" -> lat
                             [] field = "longitude" -> lon
                             [] OTHER -> key])

SpecCoordinates == Init /\ [][CoordinatesNext]_vars

\* C29: for every (lat, lon) pair with lat outside [41.6, 42.1] or lon
\* outside [-87.95, -87.5] the sanitized record has latitude None and
\* longitude None; a pair with both values inside, the bounds included, is
\* kept.
C29_CoordinateBounds ==
    (call.op = "sanitize"
        /\ call.raw.latitude \in DOMAIN Degrees /\ call.raw.longitude \in DOMAIN Degrees)
        => LET lat == Degrees[call.raw.latitude]
               lon == Degrees[call.raw.longitude]
           IN IF lat < 4160 \/ lat > 4210 \/ lon < 0 - 8795 \/ lon > 0 - 8750
                 THEN /\ call.record.latitude = NoValue
                      /\ call.record.longitude = NoValue
                 ELSE /\ call.record.latitude = call.raw.latitude
                      /\ call.record.longitude = call.raw.longitude

\* ------------------------------------------------------------- SyncService
\* services/sync_service.py: sync(["crashes"]) over a client without
\* iter_batches (SODAClient has none), that is over one fetch_all_records.

\* The columns of a crash row the model follows.
UpsertColumns == CreatedColumns("crashes") \cup {"latitude", "longitude"}

\* upsert of one record within the batch's transaction: a record without key
\* is skipped, a stored row is overwritten in every column, a new row is
\* inserted.
UpsertRecord(s, record) ==
    IF KeyMissing("crashes", record)
       THEN [s EXCEPT !.skipped = @ + 1]
       ELSE LET key == KeyOf("crashes", record)
                row == [col \in UpsertColumns |-> Get(record, col)]
            IN IF key \in DOMAIN s.rows
                  THEN [s EXCEPT !.rows = [@ EXCEPT ![key] = row], !.updated = @ + 1]
                  ELSE [s EXCEPT !.rows = (key :> row) @@ @, !.inserted = @ + 1]

RECURSIVE UpsertRecords(_, _, _)
UpsertRecords(s, records, k) ==
    IF k > Len(records) THEN s
    ELSE UpsertRecords(UpsertRecord(s, records[k]), records, k + 1)

\* DatabaseService.upsert_crash_records: one commit for the batch; when the
\* database fails the transaction rolls back and the error is raised.
upsert_crash_records(tbl, records, fails) ==
    IF fails
       THEN [raised |-> TRUE, table |-> tbl, inserted |-> 0, updated |-> 0, skipped |-> 0]
       ELSE LET s == UpsertRecords([rows |-> tbl, inserted |-> 0, updated |-> 0,
                                    skipped |-> 0], records, 1)
            IN [raised |-> FALSE, table |-> s.rows, inserted |-> s.inserted,
                updated |-> s.updated, skipped |-> s.skipped]

\* SyncService._sanitize_batch for crashes
sanitize_batch(records) ==
    [k \in 1..Len(records) |-> sanitize_located_record("crashes", records[k])]

\* SyncService._persist_batch for crashes
persist_batch(tbl, records, fails) ==
    IF records = <<>>
       THEN [raised |-> FALSE, table |-> tbl, inserted |-> 0, updated |-> 0, skipped |-> 0]
       ELSE upsert_crash_records(tbl, records, fails)

\* SyncService.sync(["crashes"]) when the fetch returned records: the
\* endpoint's result, or no result when the persistence raised (sync has no
\* handler for it).
sync_service_sync(records, fails) ==
    LET db_result == persist_batch(table, sanitize_batch(records), fails)
    IN /\ table' = db_result.table
       /\ call' = [op |-> "sync_service",
                   batch |-> [k \in 1..Len(records) |->
                                 [key |-> Get(records[k], "crash_record_id"),
                                  latitude |-> Get(records[k], "latitude")]],
                   raised |-> db_result.raised,
                   result |-> IF db_result.raised
                                 THEN NoResult
                                 ELSE [records_fetched |-> Len(records),
                                       records_inserted |-> db_result.inserted,
                                       records_updated |-> db_result.updated,
                                       records_skipped |-> db_result.skipped]]
       /\ UNCHANGED <<now, syncVars, jobVars, entity, client>>

FetchedCrashes ==
    [crash_record_id : {NoValue, "k1", "k2"},
     latitude : {"41.59", "41.88", "N/A"},
     longitude : {"-87.63"},
     weather_condition : {"a"}]

SyncServiceNext ==
    \E n \in 1..MaxBatch, fails \in BOOLEAN :
        \E records \in [1..n -> FetchedCrashes] : sync_service_sync(records, fails)

SpecSyncService == Init /\ [][SyncServiceNext]_vars

MaxPath == 4

DEFAULT_PUBLIC_ROUTES ==
    {<<"/", "health">>, <<"/">>, <<"/", "version">>, <<"/", "docs">>, <<"/", "redoc">>,
     <<"/", "openapi.json">>,
     <<"/", "dashboard", "/", "stats">>, <<"/", "dashboard", "/", "trends">>,
     <<"/", "dashboard", "/", "crashes", "/", "geojson">>,
     <<"/", "places", "/">>,
     <<"/", "admin">>, <<"/", "documentation">>}

PROTECTED_ROUTES ==
    {<<"/", "sync", "/", "trigger">>, <<"/", "sync", "/", "test">>, <<"/", "jobs">>,
     <<"/", "spatial", "/", "layers">>,
     <<"/", "dashboard", "/", "location-report", "/", "export">>}

\* str.startswith
startswith(path, prefix) ==
    /\ Len(prefix) <= Len(path)
    /\ SubSeq(path, 1, Len(prefix)) = prefix

\* is_public_route with the default public routes (PUBLIC_ROUTES unset)
is_public_route(path) ==
    IF \E protected \in PROTECTED_ROUTES : startswith(path, protected)
       THEN FALSE
       ELSE \E route \in DEFAULT_PUBLIC_ROUTES :
               \/ path = route
               \/ startswith(path, route \o <<"/">>)
               \/ startswith(path, route)

\* APIKeyMiddleware.dispatch asks whether the request's path is public.
dispatch(path) ==
    /\ call' = [op |-> "dispatch", path |-> path, public |-> is_public_route(path)]
    /\ UNCHANGED <<now, syncVars, jobVars, entity, table, client>>

PathPieces ==
    {"/", "health", "sync", "trigger", "counts", "jobs", "spatial", "load",
     "layers", "places", "x", "y"}

\* request.url.path: it starts with "/".
Paths ==
    UNION {{path \in [1..n -> PathPieces] : path[1] = "/"} : n \in 1..MaxPath}

AuthNext == \E path \in Paths : dispatch(path)

SpecAuth == Init /\ [][AuthNext]_vars

\* C30: is_public_route(path) is true only if the path is under no protected
\* prefix and equals a public route or lies under a public route's prefix,
\* the public route "/" matching the path "/" alone; so a path on no public
\* list (/sync/counts, /spatial/load, /x) is not public.
C30_PublicOnlyIfListed ==
    (call.op = "dispatch" /\ call.public)
        => /\ \A protected \in PROTECTED_ROUTES :
                 ~(/\ Len(protected) <= Len(call.path)
                   /\ SubSeq(call.path, 1, Len(protected)) = protected)
           /\ \E route \in DEFAULT_PUBLIC_ROUTES :
                 \/ call.path = route
                 \/ /\ Len(route) + 1 <= Len(call.path)
                    /\ SubSeq(call.path, 1, Len(route) + 1) = route \o <<"/">>
                 \/ /\ route # <<"/">>
                    /\ route[Len(route)] = "/"
                    /\ Len(route) <= Len(call.path)
                    /\ SubSeq(call.path, 1, Len(route)) = route

\* C31: the step of delete_job(j) leaves no execution row of job j, and in
\* every state each execution row references an existing job, also when the
\* job is deleted while one of its executions is pending or running.
C31_DeleteCascades ==
    /\ [][\A j \in 1..Len(jobs) :
             (jobs[j].exists /\ ~jobs'[j].exists)
                => \A e \in 1..Len(executions') :
                      ~(executions'[e].exists /\ executions'[e].job_id = j)]_vars
    /\ [](\A e \in 1..Len(executions) :
             executions[e].exists
                => /\ executions[e].job_id \in 1..Len(jobs)
                   /\ jobs[executions[e].job_id].exists)

C31_Witness ==
    \E e \in 1..Len(tasks) :
        /\ tasks[e].pc = "awaiting_sync"
        /\ ~executions[e].exists
        /\ \A j \in 1..Len(jobs) : ~jobs[j].exists
        /\ Len(jobs) > 0

\* C32: whatever the endings of the HTTP calls, _make_request makes at least
\* one and at most max_retries + 1 attempts and then returns a response or
\* raises; a raise before the budget is spent is the error of the last attempt.
C32_AttemptsWithinBudget ==
    call.op = "fetch_records"
        => /\ call.attempts \in 1..(max_retries + 1)
           /\ call.raised \in {"none", "ValueError", "HTTPStatusError",
                               "TimeoutException", "ConnectError", "Exception"}
           /\ \A k \in 1..(call.attempts - 1) : call.outcomes[k] # "ok"
           /\ call.raised \in {"none", "ValueError"}
                 <=> call.outcomes[call.attempts] = "ok"

C32_Witness ==
    /\ call.op = "fetch_records"
    /\ call.attempts = max_retries + 1
    /\ \A k \in 1..(max_retries + 2) : call.outcomes[k] \in {"429", "timeout"}
    /\ call.outcomes[1] = "429"
    /\ call.outcomes[max_retries + 1] = "timeout"
    /\ call.raised = "TimeoutException"

\* C33: sleeps happen only between attempts: the k-th sleep lasts
\* backoff_factor ** (k - 1) seconds, and there is one sleep fewer than
\* attempts, for HTTP 429 as for timeouts and connection failures.
C33_SleepsOnlyBetweenAttempts ==
    call.op = "fetch_records"
        => /\ Len(call.wait_times) <= call.attempts - 1
           /\ \A k \in 1..Len(call.wait_times) :
                 call.wait_times[k] = backoff_factor ^ (k - 1)

\* ---------------------------------------------------------------------------
\* JobService._build_sync_params.  A date is the number of its day, a config
\* is the job's config blob with None for a date it does not hold.

\* strftime("%Y-%m-%d") of a time in seconds: the day, without the time of day.
strftime(t) == t \div DaySeconds

\* now - timedelta(days=n)
timedelta_ago(t, n) == t - n * DaySeconds

\* config.get(key, default) of a key that holds a list; <<>> stands for a
\* config without the key.
config_get(config, key, default) ==
    IF config[key] = <<>> THEN default ELSE config[key]

\* `if config.get(key)`: the key is there and its value is not 0.
config_truthy(config, key) == config[key] # None /\ config[key] # 0

RollingWindow(job_type) ==
    CASE job_type = "last_30_days_crashes" -> [endpoint |-> "crashes", days |-> 30]
      [] job_type = "last_30_days_people" -> [endpoint |-> "people", days |-> 30]
      [] job_type = "last_30_days_vehicles" -> [endpoint |-> "vehicles", days |-> 30]
      [] job_type = "last_6_months_fatalities" -> [endpoint |-> "fatalities", days |-> 180]

build_sync_params(job_type, config, t) ==
    IF job_type = "full_refresh"
       THEN [endpoints |-> config_get(config, "endpoints", Endpoints),
             start_date |-> None, end_date |-> None]
    ELSE IF job_type \in {"last_30_days_crashes", "last_30_days_people",
                          "last_30_days_vehicles", "last_6_months_fatalities"}
       THEN [endpoints |-> <<RollingWindow(job_type).endpoint>>,
             start_date |-> strftime(timedelta_ago(t, RollingWindow(job_type).days)),
             end_date |-> strftime(t)]
    ELSE IF job_type = "custom"
       THEN [endpoints |-> config_get(config, "endpoints", <<"crashes">>),
             start_date |->
                 IF config_truthy(config, "start_date") THEN config["start_date"]
                 ELSE IF config_truthy(config, "date_range_days")
                         THEN strftime(timedelta_ago(t, config["date_range_days"]))
                         ELSE None,
             end_date |->
                 IF config_truthy(config, "end_date") THEN config["end_date"]
                 ELSE strftime(t)]
    ELSE [endpoints |-> <<"crashes">>,
          start_date |-> strftime(timedelta_ago(t, 7)),
          end_date |-> strftime(t)]

\* _run_job_execution resolving the parameters of one job at time t.
resolve_sync_params(job_type, config, t) ==
    /\ call' = [op |-> "build_sync_params", job_type |-> job_type,
                config |-> config, today |-> strftime(t),
                params |-> build_sync_params(job_type, config, t)]
    /\ UNCHANGED <<now, syncVars, jobVars, entity, table, client>>

Today == 400

Configs ==
    { [k \in {"endpoints", "start_date", "date_range_days", "end_date"} |->
          CASE k = "endpoints" -> e
            [] k = "start_date" -> sd
            [] k = "date_range_days" -> dr
            [] k = "end_date" -> ed] :
      e \in {<<>>, <<"crashes">>, <<"people", "fatalities">>},
      sd \in {None, Today - 14}, dr \in {None, 0, 30}, ed \in {None, Today - 1} }

ParamsNext ==
    \E job_type \in JobTypes, config \in Configs,
       t \in {Today * DaySeconds, Today * DaySeconds + 1, (Today + 1) * DaySeconds - 1} :
        resolve_sync_params(job_type, config, t)

SpecParams == Init /\ [][ParamsNext]_vars

\* C34: the resolved parameters depend on the job's kind: full refresh gives
\* the four endpoints and no start or end date; the rolling-window kinds give
\* their one endpoint and a start 30 (fatalities: 180) days back; custom gives
\* the configured endpoints and dates, the start being 7 days back when the
\* config names no start date.
C34_SyncParamsByKind ==
    call.op = "build_sync_params"
        => LET p == call.params
               c == call.config
           IN /\ call.job_type = "full_refresh"
                    => (p.endpoints = Endpoints /\ p.start_date = None /\ p.end_date = None)
              /\ call.job_type = "last_30_days_crashes"
                    => (p.endpoints = <<"crashes">> /\ p.start_date = call.today - 30)
              /\ call.job_type = "last_30_days_people"
                    => (p.endpoints = <<"people">> /\ p.start_date = call.today - 30)
              /\ call.job_type = "last_30_days_vehicles"
                    => (p.endpoints = <<"vehicles">> /\ p.start_date = call.today - 30)
              /\ call.job_type = "last_6_months_fatalities"
                    => (p.endpoints = <<"fatalities">> /\ p.start_date = call.today - 180)
              /\ call.job_type = "custom"
                    => /\ c["endpoints"] # <<>> => p.endpoints = c["endpoints"]
                       /\ c["start_date"] # None => p.start_date = c["start_date"]
                       /\ c["end_date"] # None => p.end_date = c["end_date"]
                       /\ (c["start_date"] = None /\ c["date_range_days"] = None)
                             => p.start_date = call.today - 7

\* ---------------------------------------------------------------------------
\* calculate_next_run called with every recurrence type, with and without a
\* last run, at every time of the clock.

MaxLastRunDays == 2

LastRuns ==
    {None} \cup {d * DaySeconds + s : d \in 0..MaxLastRunDays, s \in 0..MaxNow}

next_run_calculated(recurrence_type, last_run) ==
    /\ call' = [op |-> "calculate_next_run", recurrence_type |-> recurrence_type,
                last_run |-> last_run, at |-> now,
                result |-> calculate_next_run(recurrence_type, last_run)]
    /\ UNCHANGED <<now, syncVars, jobVars, entity, table, client>>

NextRunNext ==
    \/ \E recurrence_type \in RecurrenceTypes, last_run \in LastRuns :
          next_run_calculated(recurrence_type, last_run)
    \/ Tick

SpecNextRun == Init /\ [][NextRunNext]_vars

\* C35: calculate_next_run returns none for recurrence once and otherwise the
\* base time plus 1 day (daily), 7 days (weekly), 30 days (monthly) or 1 day
\* (custom cron), the base being last_run when given and the current time
\* otherwise.
C35_NextRunByRecurrence ==
    call.op = "calculate_next_run"
        => LET base == IF call.last_run # None THEN call.last_run ELSE call.at
           IN /\ call.recurrence_type = "once" => call.result = None
              /\ call.recurrence_type = "daily" => call.result = base + 86400
              /\ call.recurrence_type = "weekly" => call.result = base + 7 * 86400
              /\ call.recurrence_type = "monthly" => call.result = base + 30 * 86400
              /\ call.recurrence_type = "custom_cron" => call.result = base + 86400

C35_Witness ==
    /\ call.op = "calculate_next_run"
    /\ call.recurrence_type = "monthly"
    /\ call.last_run = DaySeconds + 1
    /\ call.at = 2
    /\ call.result = 31 * DaySeconds + 1

\* ---------------------------------------------------------------------------
\* Manual syncs and job executions in one process: the handlers of /sync and
\* the job service side by side, one job of a daily recurrence.

ManualAndJobsNext ==
    \/ trigger_sync("crashes")
    \/ \E i \in 1..MaxTriggers : run_sync_start(i)
    \/ \E i \in 1..MaxTriggers : run_sync_fetched(i, 0)
    \/ \E i \in 1..MaxTriggers : run_sync_failed(i)
    \/ JobsRoom(MaxJobs) /\ create_job(TRUE, "daily")
    \/ ExecutionsRoom(MaxExecutions, 1)
          /\ \E j \in 1..MaxJobs, force \in BOOLEAN : execute_job(j, force)
    \/ \E e \in 1..MaxExecutions : run_job_start(e)
    \/ \E e \in 1..MaxExecutions : run_job_sync_returned(e, NoTotals)
    \/ \E e \in 1..MaxExecutions : run_job_sync_raised(e, TRUE)
    \/ \E e \in 1..MaxExecutions : run_job_finish(e)
    \/ Tick

SpecManualAndJobs == Init /\ [][ManualAndJobsNext]_vars

\* C36: manual syncs and job executions are independent: /sync/trigger
\* answers 409 exactly when the sync register says running, whatever the
\* executions are; no step of the job service changes the register and no step
\* of a manual sync changes the job tables or their tasks.
C36_ManualSyncAndJobsIndependent ==
    /\ [][Len(replies') > Len(replies)
            => (replies'[Len(replies')].code = 409 <=> sync_state.status = "running")]_vars
    /\ [][(jobs' # jobs \/ executions' # executions \/ tasks' # tasks)
            => (sync_state' = sync_state /\ syncTasks' = syncTasks /\ replies' = replies)]_vars
    /\ [][(sync_state' # sync_state \/ syncTasks' # syncTasks \/ replies' # replies)
            => (jobs' = jobs /\ executions' = executions /\ tasks' = tasks)]_vars

\* A job execution created after a first manual sync was accepted, and a
\* second manual sync accepted and running while that execution is running.
C36_Witness ==
    /\ Len(syncTasks) = 2
    /\ syncTasks[1].sync_id = 0
    /\ syncTasks[2].sync_id = 2
    /\ sync_state.status = "running"
    /\ \E e \in 1..Len(executions) :
          /\ executions[e].execution_id = <<1, 1>>
          /\ executions[e].status = "running"
          /\ executions[e].started_at = 1

\* ---------------------------------------------------------------------------
\* Background tasks that are cancelled, and the process restarted.  The task
\* of an execution exists only in the event loop (create_task, no reference
\* is kept); the rows are in the database.

\* CancelledError is raised at the await of the sync.  It is no Exception, so
\* the except branch is passed by; the finally clause closes the session and
\* the row stays as committed before.
task_cancelled(e) ==
    /\ e \in 1..Len(tasks)
    /\ tasks[e].pc = "awaiting_sync"
    /\ tasks' = [tasks EXCEPT ![e].pc = "cancelled"]
    /\ UNCHANGED <<now, syncVars, jobs, executions, scheduler, storeVars>>

\* The process ends and starts again: the tasks of the old event loop are
\* gone, the scheduler is started anew, the tables are as they were.  Nothing
\* at startup looks for the rows the old process left PENDING or RUNNING.
process_restart ==
    /\ tasks' = [e \in 1..Len(tasks) |->
                    IF tasks[e].pc \in {"finished", "escaped", "cancelled"}
                    THEN tasks[e]
                    ELSE [tasks[e] EXCEPT !.pc = "lost"]]
    /\ tasks' # tasks
    /\ UNCHANGED <<now, syncVars, jobs, executions, scheduler, storeVars>>

RestartNext ==
    \/ JobsRoom(MaxJobs) /\ create_job(TRUE, "daily")
    \/ ExecutionsRoom(MaxExecutions, 1)
          /\ \E j \in 1..MaxJobs, force \in BOOLEAN : execute_job(j, force)
    \/ ExecutionsRoom(MaxExecutions, Cardinality(JobsDue(jobs)))
          /\ check_and_execute_due_jobs
    \/ \E e \in 1..MaxExecutions : run_job_start(e)
    \/ \E e \in 1..MaxExecutions, totals \in Totals : run_job_sync_returned(e, totals)
    \/ \E e \in 1..MaxExecutions : run_job_sync_raised(e, TRUE)
    \/ \E e \in 1..MaxExecutions : run_job_finish(e)
    \/ \E e \in 1..MaxExecutions : task_cancelled(e)
    \/ process_restart
    \/ now < MaxDays * DaySeconds /\ AdvanceToNextRun
    \/ now < MaxSeconds /\ JobTick

SpecRestart == Init /\ [][RestartNext]_vars

\* C37: every execution whose status is RUNNING has a live background task,
\* one that is waiting for the sync call and will write COMPLETED or FAILED
\* when it returns or raises, also after a cancellation and after a restart
\* of the process.
C37_RunningHasLiveTask ==
    \A e \in 1..Len(executions) :
        (executions[e].exists /\ executions[e].status = "running")
            => /\ e \in 1..Len(tasks)
               /\ tasks[e].pc = "awaiting_sync"

\* C38: in every reachable state (after any earlier execute_job calls, those
\* of the same clock second included) an execute_job call that passes the
\* job-exists and already-running tests inserts its PENDING row, under an
\* execution_id that no stored execution has.
C38_DistinctExecutionIds ==
    \A j \in 1..Len(jobs), force \in BOOLEAN :
        (jobs[j].exists /\ (~RunningExecution(executions, j) \/ force))
            => LET after == ExecutionsAfterExecute(jobs, executions, j, force)
               IN /\ Len(after) = Len(executions) + 1
                  /\ after[Len(after)].status = "pending"
                  /\ \A e \in 1..Len(executions) :
                        executions[e].exists
                            => executions[e].execution_id # after[Len(after)].execution_id

\* C39: the sanitized record keeps the fields that are its kind's natural
\* key, so when no fetched record has a null or missing key component the
\* persistence operation skips none of them.
C39_SanitizerKeepsKeys ==
    (call.op = "sync" /\ call.null_keys = 0) => call.skipped_for_key = 0

\* ---------------------------------------------------------------------------
\* Recurring jobs that are created enabled and disabled, through update_job,
\* only while one of their executions is RUNNING.

DisableNext ==
    \/ JobsRoom(MaxJobs) /\ \E r \in {"daily", "weekly"} : create_job(TRUE, r)
    \/ \E j \in 1..MaxJobs :
          RunningExecution(executions, j) /\ update_job_enabled(j, FALSE)
    \/ ExecutionsRoom(MaxExecutions, 1)
          /\ \E j \in 1..MaxJobs, force \in BOOLEAN : execute_job(j, force)
    \/ ExecutionsRoom(MaxExecutions, Cardinality(JobsDue(jobs)))
          /\ check_and_execute_due_jobs
    \/ \E e \in 1..MaxExecutions : run_job_start(e)
    \/ \E e \in 1..MaxExecutions, totals \in Totals : run_job_sync_returned(e, totals)
    \/ \E e \in 1..MaxExecutions : run_job_sync_raised(e, TRUE)
    \/ \E e \in 1..MaxExecutions : run_job_finish(e)
    \/ now < MaxDays * DaySeconds /\ AdvanceToNextRun
    \/ now < MaxSeconds /\ JobTick

SpecDisable == Init /\ [][DisableNext]_vars

\* C40: when an execution of a disabled job completes, the job stays disabled
\* with next_run none; a disabled job has no next_run, is not due, and a
\* scheduler cycle, in whatever order it takes the due jobs, creates no
\* execution of it.
C40_DisabledJobNotRearmed ==
    /\ [][\A e \in 1..Len(executions) :
             (/\ executions[e].status = "running"
              /\ executions'[e].status = "completed"
              /\ ~jobs[executions[e].job_id].enabled)
                => /\ ~jobs'[executions[e].job_id].enabled
                   /\ jobs'[executions[e].job_id].next_run = None
                   /\ jobs'[executions[e].job_id].last_run = now]_vars
    /\ [](\A j \in 1..Len(jobs) :
             (jobs[j].exists /\ ~jobs[j].enabled)
                => /\ jobs[j].next_run = None
                   /\ j \notin JobsDue(jobs)
                   /\ \A due_jobs \in Orderings(JobsDue(jobs)) :
                         ExecutionsOf(ExecuteDueJobs(jobs, executions, due_jobs, 1), j)
                            = ExecutionsOf(executions, j))

\* A recurring job disabled while its execution was running, the execution
\* completed since, at a time past the run the job was scheduled for.
C40_Witness ==
    \E e \in 1..Len(executions) :
        /\ executions[e].status = "completed"
        /\ tasks[e].pc = "finished"
        /\ ~tasks[e].next_run_assigned
        /\ ~jobs[executions[e].job_id].enabled
        /\ jobs[executions[e].job_id].recurrence_type = "daily"
        /\ jobs[executions[e].job_id].last_run = executions[e].completed_at
        /\ now >= DaySeconds

====
